---- MODULE Spec2Model ----
(***************************************************************************)
(* django-web-components: the component registry, the component / slot      *)
(* tag parser, and the rendering of ComponentNode, SlotNode and             *)
(* RenderSlotNode against a Django context (a stack of scope layers).       *)
(*                                                                         *)
(* Python objects with identity (SlotNode instances) live in `heap`, keyed *)
(* by object id; dicts whose insertion order matters (slots, attribute     *)
(* bags, unresolved attributes) are sequences of <<key, value>> pairs.     *)
(***************************************************************************)
EXTENDS Naturals, Sequences, FiniteSets, TLC

\* ------------------------------------------------------------- bounds
MaxOps == 4          \* registry calls in one run of SpecRegistry
MaxChildren == 2     \* child nodes inside one component invocation
MaxRenders == 2      \* renders of the parsed tree, over all threads
MaxSlotCalls == 2    \* render_slot tags executed by one component body
MaxAttrs == 2        \* items of one attribute dict passed to a function of attributes.py
MaxBags == 2         \* dicts passed to one call of merge_attributes
MaxAppendBags == 3   \* dicts passed to one call of append_attributes
MaxItems == 3        \* elements of a list passed to normalize_class
MaxBits == 3         \* attribute tokens of one tag
MaxNodes == 2        \* nodes of a SlotNodeList whose attributes are read
MaxCacheRenders == 3 \* renders of CachedTemplate objects
MaxRegisterCalls == 1 \* calls of register by each of the concurrent threads

\* ------------------------------------------------------------- values
NoneV == "None"              \* Python None
TrueV == "True"              \* Python True
EmptyStr == ""               \* Python "", also Django's string_if_invalid
ZeroV == "0"                 \* the number 0
NoExc == "ok"                \* no exception raised

\* Python truthiness of a scalar value.
Truthy(v) == v \notin {NoneV, EmptyStr, ZeroV, "False"}

\* ------------------------------------------------------- ordered dicts
\* A Python dict as the sequence of its <<key, value>> items in insertion order.
Keys(d) == [i \in 1..Len(d) |-> d[i][1]]
KeySet(d) == {d[i][1] : i \in 1..Len(d)}
Has(d, k) == k \in KeySet(d)
Get(d, k) == d[CHOOSE i \in 1..Len(d) : d[i][1] = k][2]
\* d[k] = v: an existing key keeps its position, a new key goes last.
Put(d, k, v) ==
    IF Has(d, k)
    THEN [i \in 1..Len(d) |-> IF d[i][1] = k THEN <<k, v>> ELSE d[i]]
    ELSE Append(d, <<k, v>>)
\* The items of d whose key satisfies keep, in order.
RECURSIVE Filter(_, _)
Filter(d, keep) ==
    IF d = <<>> THEN <<>>
    ELSE IF Head(d)[1] \in keep THEN <<Head(d)>> \o Filter(Tail(d), keep)
    ELSE Filter(Tail(d), keep)

\* ----------------------------------------------------------- registry
Names == {"hello", "card"}
FunctionComponents == {"fn"}
ClassComponents == {"cls"}
Components == FunctionComponents \cup ClassComponents

VARIABLES
    registry,      \* ComponentRegistry._registry: name -> component
    regResult,     \* outcome of the last registry call: exception and return value
    log,           \* history of the registry calls made, with their outcome
    library,       \* the tag libraries: library -> tag name -> handler
    call,          \* the last call of a function of attributes.py / utils.py, with its result
    template_cache, \* template.template_cache: name -> compiled template
    rendered,      \* history of the renders of CachedTemplate objects
    reg_call,      \* per thread: position in a call of register that runs in steps
    children,      \* the child nodes parser.parse() returned for the component tag
    tagAttrs,      \* the raw attributes parsed from the component tag
    tree,          \* the parsed ComponentNode (name "" before parsing)
    heap,          \* SlotNode objects by id
    pc,            \* per thread: position in ComponentNode.render / render_component
    ctx,           \* per thread: the render context, a stack of scope layers
    base,          \* per thread: the context stack the render was called with
    impl,          \* per thread: the implementation registry.get returned
    inst,          \* per thread: the class component instance render_component built
    idx,           \* per thread: position of the slot loop in ComponentNode.render
    slots,         \* per thread: the `slots` dict built by ComponentNode.render
    attributes,    \* per thread: the AttributeBag built by ComponentNode.render
    seen,          \* per thread: what the implementation read from its slots / attributes
    exc,           \* per thread: the exception in flight or raised to the caller
    renders,       \* renders of the parsed tree started so far
    rs,            \* per thread: state of the render_slot tag being executed
    output         \* per thread: output returned to the caller of render

regVars == <<registry, regResult, log, library>>
cacheVars == <<template_cache, rendered>>
fnVars == <<call, cacheVars, reg_call>>
parseVars == <<children, tagAttrs, tree>>
threadVars == <<pc, ctx, base, impl, inst, idx, slots, attributes, seen, exc, renders, rs, output>>
vars == <<registry, regResult, log, library, call, template_cache, rendered, reg_call, children, tagAttrs, tree, heap,
          pc, ctx, base, impl, inst, idx, slots, attributes, seen, exc, renders, rs, output>>

\* `name in self._registry`
Registered(reg, name) == name \in DOMAIN reg

\* A slip: the entry is written before the name is checked.
register_overwrites(reg, name, component) ==
    [reg |-> [n \in DOMAIN reg \cup {name} |-> IF n = name THEN component ELSE reg[n]],
     exc |-> IF Registered(reg, name) THEN "AlreadyRegistered" ELSE NoExc,
     ret |-> NoneV]

\* ComponentRegistry.register: the new mapping, the exception, the return value.
register(reg, name, component) ==
    IF Registered(reg, name)
    THEN [reg |-> reg, exc |-> "AlreadyRegistered", ret |-> NoneV]
    ELSE [reg |-> [n \in DOMAIN reg \cup {name} |->
                      IF n = name THEN component ELSE reg[n]],
          exc |-> NoExc, ret |-> NoneV]

\* A slip: an entry that exists is kept, like dict.setdefault.
Insert_keeps_existing(reg, name, component) ==
    [n \in DOMAIN reg \cup {name} |-> IF n \in DOMAIN reg THEN reg[n] ELSE component]

\* `self._registry[name] = component`
Insert(reg, name, component) ==
    [n \in DOMAIN reg \cup {name} |-> IF n = name THEN component ELSE reg[n]]

\* A thread that is not in a call of register; n counts its calls.
IdleRegister == [pc |-> "idle", name |-> "", comp |-> "", n |-> 0]

\* A slip: a lookup that gives None for an unknown name, like dict.get.
get_returns_none(reg, name) ==
    [reg |-> reg, exc |-> NoExc, ret |-> IF Registered(reg, name) THEN reg[name] ELSE NoneV]

\* ComponentRegistry.get
get(reg, name) ==
    IF ~Registered(reg, name)
    THEN [reg |-> reg, exc |-> "NotRegistered", ret |-> NoneV]
    ELSE [reg |-> reg, exc |-> NoExc, ret |-> reg[name]]

\* A plausible slip: unregister checks the name and forgets the del.
unregister_keeps_entry(reg, name) ==
    [reg |-> reg, exc |-> get(reg, name).exc, ret |-> NoneV]

\* ComponentRegistry.unregister: self.get(name), then del.
unregister(reg, name) ==
    IF get(reg, name).exc # NoExc
    THEN [reg |-> reg, exc |-> get(reg, name).exc, ret |-> NoneV]
    ELSE [reg |-> [n \in DOMAIN reg \ {name} |-> reg[n]], exc |-> NoExc, ret |-> NoneV]

\* ComponentRegistry.clear
clear(reg) == [reg |-> <<>>, exc |-> NoExc, ret |-> NoneV]

\* ComponentRegistry.__init__
EmptyRegistry == <<>>

\* ComponentTagFormatter: the tag names of a component, as sequences of pieces.
format_block_start_tag(name) == <<name>>
format_block_end_tag(name) == <<"end", name>>
format_inline_tag(name) == <<"#", name>>

\* The tag libraries component.register may be given: the one of
\* templatetags/components.py (the default) and one of the caller.
Libraries == {"components", "custom"}
\* Handlers: a built-in tag function, or create_component_tag(name).
Builtin(fn) == [kind |-> "builtin", name |-> fn]
ComponentTag(name) == [kind |-> "component", name |-> name]
\* Library.tag(tag_name, handler)
Tag(lib, tag_name, handler) ==
    [t \in DOMAIN lib \cup {tag_name} |-> IF t = tag_name THEN handler ELSE lib[t]]
\* The libraries before any component is registered: templatetags/components.py
\* has registered slot, render_slot and merge_attrs.
DefaultLibraries ==
    [l \in Libraries |->
        IF l = "components"
        THEN Tag(Tag(Tag(<<>>, <<"slot">>, Builtin("do_slot")),
                     <<"render_slot">>, Builtin("do_render_slot")),
                 <<"merge_attrs">>, Builtin("do_merge_attrs"))
        ELSE <<>>]

\* A slip: only the block tag is installed.
InstallTags_block_only(lib, name) ==
    Tag(lib, format_block_start_tag(name), ComponentTag(name))

\* register.decorator: the inline tag, then the block tag, are installed.
InstallTags(lib, name) ==
    Tag(Tag(lib, format_inline_tag(name), ComponentTag(name)),
        format_block_start_tag(name), ComponentTag(name))

\* No function of attributes.py / utils.py was called yet.
NoCall == [op |-> "none"]

Call(op, name, component, r) ==
    /\ Len(log) < MaxOps
    /\ registry' = r.reg
    /\ regResult' = [op |-> op, name |-> name, exc |-> r.exc, ret |-> r.ret]
    /\ log' = Append(log, [op |-> op, name |-> name, comp |-> component,
                           ok |-> r.exc = NoExc])

\* --------------------------------------------------------- CachedTemplate
\* Template(template_string, origin, name, engine): the compiled template, known
\* by its source and its name.
Template(template_string, name) == [source |-> template_string, name |-> name]

\* A slip: the template is compiled and stored at every render.
CachedTemplate_render_replaces_entry(cache, template_string, name) ==
    [cache |-> IF name # NoneV THEN Insert(cache, name, Template(template_string, name))
               ELSE cache,
     used |-> Template(template_string, name)]

\* CachedTemplate.render: the cache afterwards, and the template that rendered.
CachedTemplate_render(cache, template_string, name) ==
    IF name \in DOMAIN cache
    THEN [cache |-> cache, used |-> cache[name]]
    ELSE [cache |-> IF name # NoneV THEN Insert(cache, name, Template(template_string, name))
                    ELSE cache,
          used |-> Template(template_string, name)]

\* ------------------------------------------------------------ parsing
DEFAULT_SLOT_NAME == "inner_block"
LET_KEY == ":let"

\* A compiled FilterExpression: a quoted literal or a variable reference.
Lit(s) == [lit |-> TRUE, s |-> s]
Var(s) == [lit |-> FALSE, s |-> s]

TextNode(id, s) == [id |-> id, kind |-> "text", s |-> s]
VariableNode(id, s) == [id |-> id, kind |-> "var", s |-> s]

\* SlotNode.__init__: every field defaulted with `or`, attributes an empty bag.
SlotNode(id, name, nodelist, unresolved_attributes, special) ==
    [id |-> id, kind |-> "slot", name |-> name, nodelist |-> nodelist,
     unresolved_attributes |-> unresolved_attributes, special |-> special,
     attributes |-> <<>>]

\* A slip: the attributes of the first element, however many there are.
SlotNodeList_attributes_of_first(list) ==
    IF Len(list) >= 1 /\ "attributes" \in DOMAIN list[1] THEN list[1].attributes ELSE <<>>

\* SlotNodeList.attributes; hasattr(node, "attributes") is whether the record
\* of the node has the field.
SlotNodeList_attributes(list) ==
    IF Len(list) = 1 /\ "attributes" \in DOMAIN list[1] THEN list[1].attributes ELSE <<>>

\* ComponentNode.__init__
ComponentNode(name, unresolved_attributes, slotsDict) ==
    [name |-> name, unresolved_attributes |-> unresolved_attributes, slots |-> slotsDict]

\* A slip: the special attributes stay among the ordinary ones.
split_attributes_keeps_special(attrs) == <<Filter(attrs, {LET_KEY}), attrs>>

\* split_attributes: <<special, attrs>>, each in the order the input has.
split_attributes(attrs) ==
    <<Filter(attrs, {LET_KEY}), Filter(attrs, KeySet(attrs) \ {LET_KEY})>>

\* do_slot, after the name and attribute tokens are parsed: the SlotNode built from
\* the slot name, the raw attributes and the body parsed up to endslot.
do_slot(id, slot_name, raw_attributes, nodelist) ==
    SlotNode(id, slot_name, nodelist,
             split_attributes(raw_attributes)[2], split_attributes(raw_attributes)[1])

\* The child nodes a block may hold, as parser.parse() hands them to do_component:
\*   {{ x }}
\*   {% slot row a=v :let="x" %}L{{ x }}{% endslot %}
\*   {% slot inner_block a="lit" %}P{{ x }}{% endslot %}
ChildKinds == {"var", "rowlet", "inner"}
Child(kind, id) ==
    CASE kind = "var" -> VariableNode(id, "x")
      [] kind = "rowlet" ->
            do_slot(id, "row", << <<"a", Var("v")>>, <<LET_KEY, Lit("x")>> >>,
                    <<TextNode(0, "L"), VariableNode(0, "x")>>)
      [] OTHER ->
            do_slot(id, DEFAULT_SLOT_NAME, << <<"a", Lit("lit")>> >>,
                    <<TextNode(0, "P"), VariableNode(0, "x")>>)

\* {% hello id="123" class="some-class" %}
ExampleTagAttrs == << <<"id", Lit("123")>>, <<"class", Lit("some-class")>> >>

\* Attribute lists of the component tag, as token_kwargs returns them:
\*   {% hello %}   {% hello id=v :let="x" %}   {% hello id="123" class="some-class" %}
TagAttrChoices ==
    { <<>>, << <<"id", Var("v")>>, <<LET_KEY, Lit("x")>> >>, ExampleTagAttrs }

IsSlotNode(node) == node.kind = "slot"

\* A slip: a slot replaces the list of its name instead of joining it.
FileSlot_overwrite(slotsDict, node) == Put(slotsDict, node.name, <<node.id>>)

\* do_component, loop body for a SlotNode child: slots[slot_name].append(node),
\* the list initialised on first use.
FileSlot(slotsDict, node) ==
    IF Has(slotsDict, node.name)
    THEN Put(slotsDict, node.name, Append(Get(slotsDict, node.name), node.id))
    ELSE Put(slotsDict, node.name, <<node.id>>)

\* do_component, the loop over nodelist: <<slots, default_slot.nodelist>>.
RECURSIVE Bucket(_, _, _)
Bucket(nodelist, slotsDict, default_nodelist) ==
    IF nodelist = <<>> THEN <<slotsDict, default_nodelist>>
    ELSE IF IsSlotNode(Head(nodelist))
    THEN Bucket(Tail(nodelist), FileSlot(slotsDict, Head(nodelist)), default_nodelist)
    ELSE Bucket(Tail(nodelist), slotsDict, Append(default_nodelist, Head(nodelist)))

\* The id of the default SlotNode do_component creates.
DefaultId(nodelist) == Len(nodelist) + 1

\* A slip: the slots dict gets no list for the default slot until the default
\* slot is filed.
do_component_without_default_list(component_name, raw_attributes, nodelist) ==
    LET special == split_attributes(raw_attributes)[1]
        attrs == split_attributes(raw_attributes)[2]
        b == Bucket(nodelist, <<>>, <<>>)
        default_slot == SlotNode(DefaultId(nodelist), DEFAULT_SLOT_NAME, b[2], <<>>, special)
        filed == IF Len(b[2]) > 0
                 THEN FileSlot(b[1], default_slot)
                 ELSE b[1]
    IN [node |-> ComponentNode(component_name, attrs, filed), default_slot |-> default_slot]

\* A slip: the default slot is filed whether or not it has nodes.
do_component_files_empty_default(component_name, raw_attributes, nodelist) ==
    LET special == split_attributes(raw_attributes)[1]
        attrs == split_attributes(raw_attributes)[2]
        b == Bucket(nodelist, Put(<<>>, DEFAULT_SLOT_NAME, <<>>), <<>>)
        default_slot == SlotNode(DefaultId(nodelist), DEFAULT_SLOT_NAME, b[2], <<>>, special)
    IN [node |-> ComponentNode(component_name, attrs, FileSlot(b[1], default_slot)),
        default_slot |-> default_slot]

\* do_component: the ComponentNode, and the default SlotNode it created.
do_component(component_name, raw_attributes, nodelist) ==
    LET special == split_attributes(raw_attributes)[1]
        attrs == split_attributes(raw_attributes)[2]
        b == Bucket(nodelist, Put(<<>>, DEFAULT_SLOT_NAME, <<>>), <<>>)
        default_slot == SlotNode(DefaultId(nodelist), DEFAULT_SLOT_NAME, b[2], <<>>, special)
        filed == IF Len(b[2]) > 0
                 THEN Put(b[1], DEFAULT_SLOT_NAME,
                          Append(Get(b[1], DEFAULT_SLOT_NAME), default_slot.id))
                 ELSE b[1]
    IN [node |-> ComponentNode(component_name, attrs, filed), default_slot |-> default_slot]

\* The SlotNode objects that exist once the tag is parsed: the SlotNode children
\* and the default SlotNode.
ParsedHeap(nodelist, default_slot) ==
    [id \in {nodelist[i].id : i \in {j \in 1..Len(nodelist) : IsSlotNode(nodelist[j])}}
            \cup {default_slot.id} |->
        IF id = default_slot.id THEN default_slot ELSE nodelist[id]]

\* ------------------------------------------------------------ context
\* django.template.Context as used by the render methods: a stack of dicts.
Defined(stack, name) == \E i \in 1..Len(stack) : Has(stack[i], name)
\* Context.__getitem__: the topmost layer that has the name wins.
Lookup(stack, name) ==
    LET i == CHOOSE k \in 1..Len(stack) :
                 /\ Has(stack[k], name)
                 /\ \A j \in (k + 1)..Len(stack) : ~Has(stack[j], name)
    IN Get(stack[i], name)
\* Context.push(d) / Context.update(d): a new layer on top.
Push(stack, layer) == Append(stack, layer)
Pop(stack) == SubSeq(stack, 1, Len(stack) - 1)
\* Context.__setitem__: context[key] = value writes the topmost layer.
SetItem(stack, key, value) ==
    [stack EXCEPT ![Len(stack)] = Put(stack[Len(stack)], key, value)]

\* A slip: the layer is popped only when the block ends without an exception.
ContextExit_leaks_on_error(stack, exc_type) ==
    IF exc_type = NoExc THEN Pop(stack) ELSE stack

\* Leaving `with context.push(...)` / `with context.update(...)`: the layer is
\* popped whether the block returned or raised exc_type.
ContextExit(stack, exc_type) == Pop(stack)

\* FilterExpression.resolve(context, ignore_failures): an undefined variable gives
\* None with ignore_failures and the engine's string_if_invalid ("") without.
Resolve(expr, stack, ignore_failures) ==
    IF expr.lit THEN expr.s
    ELSE IF Defined(stack, expr.s) THEN Lookup(stack, expr.s)
    ELSE IF ignore_failures THEN NoneV ELSE EmptyStr

\* AttributeBag({key: value.resolve(context) for key, value in unresolved.items()})
ResolveAttributes(unresolved, stack) ==
    [i \in 1..Len(unresolved) |-> <<unresolved[i][1], Resolve(unresolved[i][2], stack, FALSE)>>]

\* NodeList.render of text and variable nodes: the pieces of output, in order.
RECURSIVE RenderNodeList(_, _)
RenderNodeList(nodelist, stack) ==
    IF nodelist = <<>> THEN <<>>
    ELSE (IF Head(nodelist).kind = "text" THEN <<Head(nodelist).s>>
          ELSE IF Resolve(Var(Head(nodelist).s), stack, FALSE) = EmptyStr THEN <<>>
          ELSE <<Resolve(Var(Head(nodelist).s), stack, FALSE)>>)
         \o RenderNodeList(Tail(nodelist), stack)

\* ------------------------------------------------------------ threads
Threads == {1, 2}
CtxValues == {"one", "two"}
\* Context({"v": val}): the context a render is called with.
BaseContext(val) == << << <<"v", val>> >> >>

\* What get_context_data() of a class component may return.
ContextDataChoices ==
    { <<>>, << <<"extra", "e">>, <<"attributes", << <<"class", "own">> >> >> >> }

\* The object id of the clone thread t makes of the SlotNode with this id.
CloneId(t, id) == t * (MaxChildren + 1) + id
OriginalIds == 1..(MaxChildren + 1)

\* The heap without the clones thread t made: nothing refers to them once its
\* render is over.
Collect(h, t) == [i \in DOMAIN h \ {CloneId(t, j) : j \in OriginalIds} |-> h[i]]

\* self.slots.items() with each list unrolled: <<slot_name, 0>> when the loop
\* reaches a name, then <<slot_name, id>> for each node of its list.
RECURSIVE Unroll(_)
Unroll(slotsDict) ==
    IF slotsDict = <<>> THEN <<>>
    ELSE << <<Head(slotsDict)[1], 0>> >>
         \o [i \in 1..Len(Head(slotsDict)[2]) |-> <<Head(slotsDict)[1], Head(slotsDict)[2][i]>>]
         \o Unroll(Tail(slotsDict))

Store(h, id, node) == [i \in DOMAIN h \cup {id} |-> IF i = id THEN node ELSE h[i]]

\* A slip: no clone, the attributes are resolved onto the parsed SlotNode itself.
CloneSlot_in_place(h, t, slot, stack) ==
    [heap |-> Store(h, slot.id,
                    [slot EXCEPT !.attributes =
                        ResolveAttributes(slot.unresolved_attributes, stack)]),
     ref |-> slot.id]

\* ComponentNode.render, loop body for a SlotNode: a new SlotNode with the fields
\* of the parsed one, then cloned_slot.resolve_attributes(context).
CloneSlot(h, t, slot, stack) ==
    [heap |-> Store(h, CloneId(t, slot.id),
                    [SlotNode(CloneId(t, slot.id), slot.name, slot.nodelist,
                              slot.unresolved_attributes, slot.special)
                     EXCEPT !.attributes =
                        ResolveAttributes(slot.unresolved_attributes, stack)]),
     ref |-> CloneId(t, slot.id)]

\* extra_context of render_component, get_context_data() merged in by dict.update.
RECURSIVE Update(_, _)
Update(d, other) ==
    IF other = <<>> THEN d
    ELSE Update(Put(d, Head(other)[1], Head(other)[2]), Tail(other))

\* A slip: the component's context data is dropped.
ExtraContext_without_data(attrs, slotsDict, data) ==
    << <<"attributes", attrs>>, <<"slots", slotsDict>> >>

ExtraContext(attrs, slotsDict, data) ==
    Update(<< <<"attributes", attrs>>, <<"slots", slotsDict>> >>, data)

\* A thread's render_slot state: where the tag is (phase), what its slot reference
\* (ref) resolved to (nodes), the node being rendered (i), the resolved argument,
\* whether the :let layer of the current node was pushed (bound), the output so
\* far (out), the tags done (calls), and the context stack when the tag began
\* (start) and when SlotNode.render was entered (entry); tag is "merge_attrs"
\* when out is what a merge_attrs tag rendered.
IdleSlotTag == [phase |-> "idle", tag |-> "none",
                ref |-> [name |-> "missing", first |-> FALSE],
                nodes |-> <<>>, i |-> 0, argument |-> NoneV, hasArg |-> FALSE,
                bound |-> FALSE, out |-> <<>>, calls |-> 0, start |-> <<>>, entry |-> <<>>]

\* ------------------------------------------------------- render_slot
\* What the first argument of render_slot may be: slots.<name> or slots.<name>.0,
\* for a name that may be absent from slots.
SlotRefs ==
    { [name |-> "row", first |-> FALSE], [name |-> "row", first |-> TRUE],
      [name |-> DEFAULT_SLOT_NAME, first |-> FALSE], [name |-> "missing", first |-> FALSE] }
\* The optional second argument: none, "u1", or 0.
ArgChoices == { <<FALSE, Lit(NoneV)>>, <<TRUE, Lit("u1")>>, <<TRUE, Lit(ZeroV)>> }

\* A slip: a list is treated like a single node and only its first node rendered.
ResolveSlotRef_first_only(ref, stack) ==
    IF ~Defined(stack, "slots") \/ ~Has(Lookup(stack, "slots"), ref.name)
          \/ Get(Lookup(stack, "slots"), ref.name) = <<>>
    THEN [kind |-> "none", nodes |-> <<>>]
    ELSE [kind |-> "node", nodes |-> <<Get(Lookup(stack, "slots"), ref.name)[1]>>]

\* self.slot.resolve(context, ignore_failures=True): nothing, a SlotNodeList, or
\* one SlotNode; `nodes` are the nodes RenderSlotNode.render goes on to render.
ResolveSlotRef(ref, stack) ==
    IF ~Defined(stack, "slots") \/ ~Has(Lookup(stack, "slots"), ref.name)
    THEN [kind |-> "none", nodes |-> <<>>]
    ELSE IF ~ref.first
    THEN [kind |-> "list", nodes |-> Get(Lookup(stack, "slots"), ref.name)]
    ELSE IF Get(Lookup(stack, "slots"), ref.name) = <<>>
    THEN [kind |-> "none", nodes |-> <<>>]
    ELSE [kind |-> "node", nodes |-> <<Get(Lookup(stack, "slots"), ref.name)[1]>>]

\* render_slot: slot.special.get(":let"), resolved when present.
LetName(slot, stack) ==
    IF Has(slot.special, LET_KEY)
    THEN Resolve(Get(slot.special, LET_KEY), stack, TRUE)
    ELSE NoneV

\* A slip: the :let name is bound whether or not an argument was passed.
BindsLet_without_argument(let, argument) == Truthy(let)

\* render_slot: `if let and argument:`
BindsLet(let, argument) == Truthy(let) /\ Truthy(argument)

\* SlotNode.render as one step: the body rendered with the slot's attributes,
\* resolved against the context, in a layer of their own.
SlotNode_render(slot, stack) ==
    RenderNodeList(slot.nodelist,
                   Push(stack, << <<"attributes",
                                    ResolveAttributes(slot.unresolved_attributes, stack)>> >>))

\* RenderSlotNode.render_slot as one step.
render_slot(slot, argument, stack) ==
    IF BindsLet(LetName(slot, stack), argument)
    THEN SlotNode_render(slot, Push(stack, << <<LetName(slot, stack), argument>> >>))
    ELSE SlotNode_render(slot, stack)

\* --------------------------------------------------------- attributes
\* Attribute values, as attributes.py tells them apart: None, False, True, a
\* number, a str (s: its pieces, in order; safe: a SafeString), a list and a
\* dict (items). A piece is a word, a blank " ", or a character that HTML
\* escaping rewrites.
PyValue(kind, s, safe, items) == [kind |-> kind, s |-> s, safe |-> safe, items |-> items]
PyNone == PyValue("none", <<>>, FALSE, <<>>)
PyFalse == PyValue("false", <<>>, FALSE, <<>>)
PyTrue == PyValue("true", <<>>, FALSE, <<>>)
PyInt(s) == PyValue("int", s, FALSE, <<>>)
Str(s) == PyValue("str", s, FALSE, <<>>)
\* mark_safe(s)
mark_safe(s) == PyValue("str", s, TRUE, <<>>)
PyList(items) == PyValue("list", <<>>, FALSE, items)
\* A dict given as a sequence of [key, val], key the pieces of a str.
PyDict(items) == PyValue("dict", <<>>, FALSE, items)

\* bool(value)
PyTruthy(value) ==
    CASE value.kind \in {"none", "false"} -> FALSE
      [] value.kind = "true" -> TRUE
      [] value.kind = "int" -> value.s # <<"0">>
      [] value.kind = "str" -> value.s # <<>>
      [] OTHER -> value.items # <<>>

\* a == b: a SafeString equals the str of the same characters.
PyEq(a, b) == IF a.kind = "str" /\ b.kind = "str" THEN a.s = b.s ELSE a = b

\* str(value), for the values that are written out.
PyStr(value) ==
    CASE value.kind = "none" -> <<"None">>
      [] value.kind = "false" -> <<"False">>
      [] value.kind = "true" -> <<"True">>
      [] OTHER -> value.s

\* django.utils.html.escape, piece by piece.
EscapePiece(c) ==
    CASE c = "'" -> "&#x27;"
      [] c = "&" -> "&amp;"
      [] c = "<" -> "&lt;"
      [] c = "q'" -> "q&#x27;"
      [] OTHER -> c
escape(s) == [i \in 1..Len(s) |-> EscapePiece(s[i])]

\* conditional_escape: a SafeString is taken as it is, anything else is
\* converted to str and escaped.
conditional_escape(value) ==
    IF value.kind = "str" /\ value.safe THEN value.s ELSE escape(PyStr(value))

\* str.strip(): blanks removed at both ends.
RECURSIVE lstrip(_)
lstrip(s) == IF s # <<>> /\ Head(s) = " " THEN lstrip(Tail(s)) ELSE s
RECURSIVE rstrip(_)
rstrip(s) ==
    IF s # <<>> /\ s[Len(s)] = " " THEN rstrip(SubSeq(s, 1, Len(s) - 1)) ELSE s
strip(s) == rstrip(lstrip(s))

\* sep.join(list)
RECURSIVE join(_, _)
join(sep, list) ==
    IF list = <<>> THEN <<>>
    ELSE IF Len(list) = 1 THEN list[1]
    ELSE list[1] \o sep \o join(sep, Tail(list))

\* A slip: True is written out like any other value.
AttrItem_true_as_value(key, value) ==
    IF value.kind \in {"none", "false"} THEN <<>>
    ELSE << <<EscapePiece(key), "=\"">> \o conditional_escape(value) \o <<"\"">> >>

\* attributes_to_string, loop body: what one item adds to attr_list. format_html
\* escapes both of its arguments with conditional_escape.
AttrItem(key, value) ==
    IF value.kind \in {"none", "false"} THEN <<>>
    ELSE IF value.kind = "true" THEN << <<EscapePiece(key)>> >>
    ELSE << <<EscapePiece(key), "=\"">> \o conditional_escape(value) \o <<"\"">> >>

\* attributes_to_string, the loop: attr_list.
RECURSIVE AttrList(_)
AttrList(attrs) ==
    IF attrs = <<>> THEN <<>>
    ELSE AttrItem(Head(attrs)[1], Head(attrs)[2]) \o AttrList(Tail(attrs))

attributes_to_string(attrs) == mark_safe(join(<<" ">>, AttrList(attrs)))

\* normalize_class: the loops over a list and over the items of a dict.
RECURSIVE normalize_class(_)
RECURSIVE NormalizeList(_)
NormalizeList(items) ==
    IF items = <<>> THEN <<>>
    ELSE (IF normalize_class(Head(items)).s # <<>>
          THEN normalize_class(Head(items)).s \o <<" ">> ELSE <<>>)
         \o NormalizeList(Tail(items))
RECURSIVE NormalizeDict(_)
NormalizeDict(items) ==
    IF items = <<>> THEN <<>>
    ELSE (IF PyTruthy(Head(items).val) THEN Head(items).key \o <<" ">> ELSE <<>>)
         \o NormalizeDict(Tail(items))

\* normalize_class: result.strip() of what the branch of the type built; strip()
\* returns a plain str.
normalize_class(value) ==
    CASE value.kind = "str" -> Str(strip(value.s))
      [] value.kind = "list" -> Str(strip(NormalizeList(value.items)))
      [] value.kind = "dict" -> Str(strip(NormalizeDict(value.items)))
      [] OTHER -> Str(<<>>)

\* merge_attributes, loop body.
MergeItem(result, key, value) ==
    IF key = "class"
    THEN LET klass == IF Has(result, "class") THEN Get(result, "class") ELSE PyNone
         IN IF ~PyEq(klass, value)
            THEN Put(result, "class", normalize_class(PyList(<<klass, value>>)))
            ELSE result
    ELSE IF key # "" THEN Put(result, key, value)
    ELSE result

\* merge_attributes, the loops: over the items of one dict, over the dicts.
RECURSIVE MergeDict(_, _)
MergeDict(result, to_merge) ==
    IF to_merge = <<>> THEN result
    ELSE MergeDict(MergeItem(result, Head(to_merge)[1], Head(to_merge)[2]), Tail(to_merge))
RECURSIVE MergeAll(_, _)
MergeAll(result, args) ==
    IF args = <<>> THEN result ELSE MergeAll(MergeDict(result, Head(args)), Tail(args))

merge_attributes(args) == MergeAll(<<>>, args)

\* The outcome of a call that may raise: the exception and the return value.
Returned(ret) == [exc |-> NoExc, ret |-> ret]
Raised(exc_type) == [exc |-> exc_type, ret |-> <<>>]

\* append_attributes, loop body: result[key] += " " + value. str + value raises
\* TypeError unless value is a str, and so does a non-str += str; the sum of two
\* str is a plain str unless both are SafeString, and " " is not.
AppendItem(result, key, value) ==
    IF ~Has(result, key) THEN Returned(Put(result, key, value))
    ELSE IF value.kind # "str" \/ Get(result, key).kind # "str" THEN Raised("TypeError")
    ELSE Returned(Put(result, key, Str(Get(result, key).s \o <<" ">> \o value.s)))

\* append_attributes, the loops; a raised exception ends the call.
RECURSIVE AppendDict(_, _)
AppendDict(result, to_merge) ==
    IF to_merge = <<>> THEN Returned(result)
    ELSE LET r == AppendItem(result, Head(to_merge)[1], Head(to_merge)[2])
         IN IF r.exc # NoExc THEN r ELSE AppendDict(r.ret, Tail(to_merge))
RECURSIVE AppendAll(_, _)
AppendAll(result, args) ==
    IF args = <<>> THEN Returned(result)
    ELSE LET r == AppendDict(result, Head(args))
         IN IF r.exc # NoExc THEN r ELSE AppendAll(r.ret, Tail(args))

append_attributes(args) == AppendAll(<<>>, args)

\* {key: value for key, value in pairs}
RECURSIVE DictFromPairs(_)
DictFromPairs(pairs) ==
    IF pairs = <<>> THEN <<>>
    ELSE Put(DictFromPairs(SubSeq(pairs, 1, Len(pairs) - 1)),
             pairs[Len(pairs)][1], pairs[Len(pairs)][2])

\* A slip: the source attributes are the base and the defaults override them.
MergeAttrsNode_render_defaults_last(bound_attributes, default_attrs, append_attrs) ==
    LET attrs == merge_attributes(<<bound_attributes, DictFromPairs(default_attrs)>>)
        appended == append_attributes(<<attrs, DictFromPairs(append_attrs)>>)
    IN IF appended.exc # NoExc THEN appended
       ELSE Returned(attributes_to_string(appended.ret))

\* MergeAttrsNode.render, with the attributes expression and the values of
\* the pairs already resolved against the context.
MergeAttrsNode_render(bound_attributes, default_attrs, append_attrs) ==
    LET attrs == merge_attributes(<<DictFromPairs(default_attrs), bound_attributes>>)
        appended == append_attributes(<<attrs, DictFromPairs(append_attrs)>>)
    IN IF appended.exc # NoExc THEN appended
       ELSE Returned(attributes_to_string(appended.ret))

\* ------------------------------------------------------------- actions
\* The component tag is parsed: block form with its child nodes, or inline.
Parse(form, raw_attributes, kinds) ==
    LET nodelist == IF form = "inline" THEN <<>>
                    ELSE [i \in 1..Len(kinds) |-> Child(kinds[i], i)]
        parsed == do_component("hello", raw_attributes, nodelist)
    IN /\ tree.name = ""
       /\ form = "inline" => kinds = <<>>
       /\ children' = nodelist
       /\ tagAttrs' = raw_attributes
       /\ tree' = parsed.node
       /\ heap' = ParsedHeap(nodelist, parsed.default_slot)
       /\ UNCHANGED <<fnVars, regVars, threadVars>>

\* ComponentNode.render is called by thread t with Context({"v": val}).
StartRender(t, val) ==
    /\ tree.name # ""
    /\ pc[t] \in {"idle", "done", "raised"}
    /\ renders < MaxRenders
    /\ renders' = renders + 1
    /\ base' = [base EXCEPT ![t] = BaseContext(val)]
    /\ ctx' = [ctx EXCEPT ![t] = BaseContext(val)]
    /\ pc' = [pc EXCEPT ![t] = "slots"]
    /\ idx' = [idx EXCEPT ![t] = 1]
    /\ slots' = [slots EXCEPT ![t] = <<>>]
    /\ attributes' = [attributes EXCEPT ![t] = <<>>]
    /\ seen' = [seen EXCEPT ![t] = <<>>]
    /\ exc' = [exc EXCEPT ![t] = NoExc]
    /\ impl' = [impl EXCEPT ![t] = NoneV]
    /\ inst' = [inst EXCEPT ![t] = <<>>]
    /\ rs' = [rs EXCEPT ![t] = IdleSlotTag]
    /\ output' = [output EXCEPT ![t] = <<>>]
    /\ heap' = Collect(heap, t)
    /\ UNCHANGED <<fnVars, regVars, parseVars>>

\* ComponentNode.render: one step of the loops over self.slots.
SlotStep(t) ==
    /\ pc[t] = "slots"
    /\ idx[t] <= Len(Unroll(tree.slots))
    /\ LET item == Unroll(tree.slots)[idx[t]]
           made == CloneSlot(heap, t, heap[item[2]], ctx[t])
       IN \/ /\ item[2] = 0
             /\ slots' = [slots EXCEPT ![t] =
                             IF Has(@, item[1]) THEN @ ELSE Put(@, item[1], <<>>)]
             /\ heap' = heap
          \/ /\ item[2] # 0
             /\ heap' = made.heap
             /\ slots' = [slots EXCEPT ![t] =
                             Put(@, item[1], Append(Get(@, item[1]), made.ref))]
    /\ idx' = [idx EXCEPT ![t] = @ + 1]
    /\ UNCHANGED <<fnVars, regVars, parseVars, pc, ctx, base, impl, inst, attributes, seen, exc,
                   renders, rs, output>>

\* ComponentNode.render: the component's own attributes are resolved.
AttributesStep(t) ==
    /\ pc[t] = "slots"
    /\ idx[t] > Len(Unroll(tree.slots))
    /\ attributes' = [attributes EXCEPT ![t] =
                         ResolveAttributes(tree.unresolved_attributes, ctx[t])]
    /\ pc' = [pc EXCEPT ![t] = "get"]
    /\ UNCHANGED <<fnVars, regVars, parseVars, heap, ctx, base, impl, inst, idx, slots, seen, exc,
                   renders, rs, output>>

\* render_component: component_class = registry.get(name)
RegistryGet(t) ==
    /\ pc[t] = "get"
    /\ LET r == get(registry, tree.name)
       IN \/ /\ r.exc # NoExc
             /\ exc' = [exc EXCEPT ![t] = r.exc]
             /\ pc' = [pc EXCEPT ![t] = "raised"]
             /\ impl' = impl
          \/ /\ r.exc = NoExc
             /\ impl' = [impl EXCEPT ![t] = r.ret]
             /\ pc' = [pc EXCEPT ![t] = "dispatch"]
             /\ exc' = exc
    /\ UNCHANGED <<fnVars, regVars, parseVars, heap, ctx, base, inst, idx, slots, attributes, seen,
                   renders, rs, output>>

\* render_component, function component: with context.push(extra_context): ...
DispatchFunction(t) ==
    /\ pc[t] = "dispatch"
    /\ impl[t] \in FunctionComponents
    /\ ctx' = [ctx EXCEPT ![t] = Push(@, ExtraContext(attributes[t], slots[t], <<>>))]
    /\ pc' = [pc EXCEPT ![t] = "body"]
    /\ UNCHANGED <<fnVars, regVars, parseVars, heap, base, impl, inst, idx, slots, attributes, seen,
                   exc, renders, rs, output>>

\* render_component, class component: the instance is built, get_context_data()
\* is merged into extra_context, and the layer is pushed; the constructor or
\* get_context_data may raise before anything is pushed.
DispatchClass(t) ==
    /\ pc[t] = "dispatch"
    /\ impl[t] \in ClassComponents
    /\ \/ \E data \in ContextDataChoices :
             /\ inst' = [inst EXCEPT ![t] =
                            <<[attributes |-> attributes[t], slots |-> slots[t],
                               data |-> data]>>]
             /\ ctx' = [ctx EXCEPT ![t] =
                           Push(@, ExtraContext(attributes[t], slots[t], data))]
             /\ pc' = [pc EXCEPT ![t] = "body"]
             /\ exc' = exc
       \/ /\ exc' = [exc EXCEPT ![t] = "InitError"]
          /\ pc' = [pc EXCEPT ![t] = "raised"]
          /\ UNCHANGED <<ctx, inst>>
    /\ UNCHANGED <<fnVars, regVars, parseVars, heap, base, impl, idx, slots, attributes, seen,
                   renders, rs, output>>

\* The attributes of the slot nodes the implementation was handed, as it reads
\* them now: slot name -> the attributes of each node of the list.
SlotView(t) ==
    [i \in 1..Len(slots[t]) |->
        <<slots[t][i][1],
          [j \in 1..Len(slots[t][i][2]) |-> heap[slots[t][i][2][j]].attributes]>>]

\* The implementation reads its attributes and the attributes of its slots.
Observe(t) ==
    /\ pc[t] = "body"
    /\ rs[t].phase = "idle"
    /\ seen[t] = <<>>
    /\ seen' = [seen EXCEPT ![t] = <<[attributes |-> attributes[t], slots |-> SlotView(t)]>>]
    /\ UNCHANGED <<fnVars, regVars, parseVars, heap, pc, ctx, base, impl, inst, idx, slots, attributes,
                   exc, renders, rs, output>>

\* The ids of the slot nodes in the `slots` dict of thread t.
Handed(t) == UNION {{slots[t][i][2][j] : j \in 1..Len(slots[t][i][2])} : i \in 1..Len(slots[t])}

\* The implementation writes to the slot nodes it was handed:
\* slot.attributes["m"] = "dirty".
Mutate(t) ==
    /\ pc[t] = "body"
    /\ rs[t].phase = "idle"
    /\ seen[t] # <<>>
    /\ \E id \in Handed(t) : ~Has(heap[id].attributes, "m")
    /\ heap' = [id \in DOMAIN heap |->
                   IF id \in Handed(t)
                   THEN [heap[id] EXCEPT !.attributes = Put(@, "m", "dirty")]
                   ELSE heap[id]]
    /\ UNCHANGED <<fnVars, regVars, parseVars, threadVars>>

\* The implementation sets a context variable before it renders anything:
\* context["v"] = "shadow".
SetVar(t) ==
    /\ pc[t] = "body"
    /\ rs[t].phase = "idle"
    /\ rs[t].calls = 0
    /\ ~Has(ctx[t][Len(ctx[t])], "v")
    /\ ctx' = [ctx EXCEPT ![t] = SetItem(@, "v", "shadow")]
    /\ UNCHANGED <<fnVars, regVars, parseVars, heap, pc, base, impl, inst, idx, slots, attributes, seen,
                   exc, renders, rs, output>>

\* A resolved attribute value of the rendering part, as attributes.py sees it.
AttrValue(v) ==
    CASE v = NoneV -> PyNone
      [] v = TrueV -> PyTrue
      [] v = ZeroV -> PyInt(<<"0">>)
      [] v = EmptyStr -> Str(<<>>)
      [] OTHER -> Str(<<v>>)
AttrBag(d) == [i \in 1..Len(d) |-> <<d[i][1], AttrValue(d[i][2])>>]

\* The pairs of {% merge_attrs attributes class="font-bold" @click="foo" %}.
ExampleDefaults ==
    << <<"class", mark_safe(<<"font-bold">>)>>, <<"@click", mark_safe(<<"foo">>)>> >>

\* The implementation renders
\* {% merge_attrs attributes class="font-bold" @click="foo" %}.
MergeAttrsTag(t) ==
    /\ pc[t] = "body"
    /\ rs[t].phase = "idle" /\ rs[t].calls = 0 /\ rs[t].tag = "none"
    /\ LET r == MergeAttrsNode_render(AttrBag(Resolve(Var("attributes"), ctx[t], FALSE)),
                                      ExampleDefaults, <<>>)
       IN \/ /\ r.exc = NoExc
             /\ rs' = [rs EXCEPT ![t] =
                          [IdleSlotTag EXCEPT !.out = r.ret.s, !.tag = "merge_attrs"]]
             /\ UNCHANGED <<pc, exc>>
          \/ /\ r.exc # NoExc
             /\ rs' = [rs EXCEPT ![t] = IdleSlotTag]
             /\ exc' = [exc EXCEPT ![t] = r.exc]
             /\ pc' = [pc EXCEPT ![t] = "exit"]
    /\ UNCHANGED <<fnVars, regVars, parseVars, heap, ctx, base, impl, inst, idx, slots,
                   attributes, seen, renders, output>>

\* The implementation returns, as its output, what its last tag rendered /
\* raises.
Return(t) ==
    /\ pc[t] = "body"
    /\ rs[t].phase = "idle"
    /\ pc' = [pc EXCEPT ![t] = "exit"]
    /\ output' = [output EXCEPT ![t] = rs[t].out]
    /\ rs' = [rs EXCEPT ![t] = [IdleSlotTag EXCEPT !.out = rs[t].out, !.tag = rs[t].tag]]
    /\ UNCHANGED <<fnVars, regVars, parseVars, heap, ctx, base, impl, inst, idx, slots, attributes,
                   seen, exc, renders>>

Raise(t) ==
    /\ pc[t] = "body"
    /\ rs[t].phase = "idle"
    /\ exc' = [exc EXCEPT ![t] = "Error"]
    /\ pc' = [pc EXCEPT ![t] = "exit"]
    /\ rs' = [rs EXCEPT ![t] = IdleSlotTag]
    /\ UNCHANGED <<fnVars, regVars, parseVars, heap, ctx, base, impl, inst, idx, slots, attributes, seen,
                   renders, output>>

\* render_component: the with block is left, by return or by exception, and
\* ComponentNode.render returns to its caller; its locals are gone.
Exit(t) ==
    /\ pc[t] = "exit"
    /\ ctx' = [ctx EXCEPT ![t] = ContextExit(@, exc[t])]
    /\ pc' = [pc EXCEPT ![t] = IF exc[t] = NoExc THEN "done" ELSE "raised"]
    /\ output' = [output EXCEPT ![t] = IF exc[t] = NoExc THEN @ ELSE <<>>]
    /\ heap' = Collect(heap, t)
    /\ slots' = [slots EXCEPT ![t] = <<>>]
    /\ attributes' = [attributes EXCEPT ![t] = <<>>]
    /\ seen' = [seen EXCEPT ![t] = <<>>]
    /\ inst' = [inst EXCEPT ![t] = <<>>]
    /\ UNCHANGED <<fnVars, regVars, parseVars, base, impl, idx, exc, renders, rs>>

\* RenderSlotNode.render: the argument and the slot reference are resolved; a
\* reference that resolves to nothing, or to an empty list, renders "".
SlotTagBegin(t, ref, arg) ==
    /\ pc[t] = "body"
    /\ rs[t].phase = "idle"
    /\ rs[t].calls < MaxSlotCalls
    /\ LET argument == IF arg[1] THEN Resolve(arg[2], ctx[t], TRUE) ELSE NoneV
           slot == ResolveSlotRef(ref, ctx[t])
           begun == [IdleSlotTag EXCEPT !.ref = ref, !.nodes = slot.nodes,
                                        !.argument = argument, !.hasArg = arg[1],
                                        !.start = ctx[t], !.calls = rs[t].calls]
       IN rs' = [rs EXCEPT ![t] =
                    IF slot.nodes = <<>>
                    THEN [begun EXCEPT !.calls = @ + 1]
                    ELSE [begun EXCEPT !.phase = "let", !.i = 1]]
    /\ UNCHANGED <<fnVars, regVars, parseVars, heap, pc, ctx, base, impl, inst, idx, slots, attributes,
                   seen, exc, renders, output>>

\* The SlotNode render_slot is working on.
CurrentSlot(t) == heap[rs[t].nodes[rs[t].i]]

\* RenderSlotNode.render_slot: with :let and an argument, the argument is bound
\* to the :let name in a new layer.
SlotTagLet(t) ==
    /\ rs[t].phase = "let"
    /\ LET let == LetName(CurrentSlot(t), ctx[t])
       IN \/ /\ BindsLet(let, rs[t].argument)
             /\ ctx' = [ctx EXCEPT ![t] = Push(@, << <<let, rs[t].argument>> >>)]
             /\ rs' = [rs EXCEPT ![t].phase = "enter", ![t].bound = TRUE]
          \/ /\ ~BindsLet(let, rs[t].argument)
             /\ ctx' = ctx
             /\ rs' = [rs EXCEPT ![t].phase = "enter", ![t].bound = FALSE]
    /\ UNCHANGED <<fnVars, regVars, parseVars, heap, pc, base, impl, inst, idx, slots, attributes, seen,
                   exc, renders, output>>

\* SlotNode.render: the slot's attributes are resolved against the current
\* context and pushed as `attributes`.
SlotEnter(t) ==
    /\ rs[t].phase = "enter"
    /\ ctx' = [ctx EXCEPT ![t] =
                  Push(@, << <<"attributes",
                               ResolveAttributes(CurrentSlot(t).unresolved_attributes, @)>> >>)]
    /\ rs' = [rs EXCEPT ![t].phase = "body", ![t].entry = ctx[t]]
    /\ UNCHANGED <<fnVars, regVars, parseVars, heap, pc, base, impl, inst, idx, slots, attributes, seen,
                   exc, renders, output>>

\* SlotNode.render: self.nodelist.render(context) returns its output or raises.
SlotBody(t) ==
    /\ rs[t].phase = "body"
    /\ \/ /\ rs' = [rs EXCEPT ![t].phase = "leave",
                              ![t].out = @ \o RenderNodeList(CurrentSlot(t).nodelist, ctx[t])]
          /\ exc' = exc
       \/ /\ rs' = [rs EXCEPT ![t].phase = "leave"]
          /\ exc' = [exc EXCEPT ![t] = "SlotError"]
    /\ UNCHANGED <<fnVars, regVars, parseVars, heap, pc, ctx, base, impl, inst, idx, slots, attributes,
                   seen, renders, output>>

\* SlotNode.render: the with block of the attributes layer is left.
SlotLeave(t) ==
    /\ rs[t].phase = "leave"
    /\ ctx' = [ctx EXCEPT ![t] = ContextExit(@, exc[t])]
    /\ rs' = [rs EXCEPT ![t].phase = "unlet"]
    /\ UNCHANGED <<fnVars, regVars, parseVars, heap, pc, base, impl, inst, idx, slots, attributes, seen,
                   exc, renders, output>>

\* RenderSlotNode.render_slot: the with block of the :let layer, when entered, is
\* left; then the next node of the list, the end of the tag, or the exception
\* going up through the implementation to render_component.
SlotTagNext(t) ==
    /\ rs[t].phase = "unlet"
    /\ ctx' = [ctx EXCEPT ![t] = IF rs[t].bound THEN ContextExit(@, exc[t]) ELSE @]
    /\ \/ /\ exc[t] # NoExc
          /\ rs' = [rs EXCEPT ![t] = IdleSlotTag]
          /\ pc' = [pc EXCEPT ![t] = "exit"]
       \/ /\ exc[t] = NoExc
          /\ rs[t].i < Len(rs[t].nodes)
          /\ rs' = [rs EXCEPT ![t].phase = "let", ![t].i = @ + 1, ![t].bound = FALSE]
          /\ pc' = pc
       \/ /\ exc[t] = NoExc
          /\ rs[t].i = Len(rs[t].nodes)
          /\ rs' = [rs EXCEPT ![t].phase = "idle", ![t].bound = FALSE,
                              ![t].calls = @ + 1]
          /\ pc' = pc
    /\ UNCHANGED <<fnVars, regVars, parseVars, heap, base, impl, inst, idx, slots, attributes, seen,
                   exc, renders, output>>

\* Calls on a ComponentRegistry.
Register(name, component) ==
    /\ Call("register", name, component, register(registry, name, component))
    /\ UNCHANGED <<fnVars, library, parseVars, heap, threadVars>>
Unregister(name) ==
    /\ Call("unregister", name, NoneV, unregister(registry, name))
    /\ UNCHANGED <<fnVars, library, parseVars, heap, threadVars>>
RegGet(name) ==
    /\ Call("get", name, NoneV, get(registry, name))
    /\ UNCHANGED <<fnVars, library, parseVars, heap, threadVars>>
Clear ==
    /\ Call("clear", NoneV, NoneV, clear(registry))
    /\ UNCHANGED <<fnVars, library, parseVars, heap, threadVars>>

\* register run by thread t, first step: `if name in self._registry: raise
\* AlreadyRegistered`.
RegisterCheck(t, name, component) ==
    /\ reg_call[t].pc # "checked"
    /\ reg_call[t].n < MaxRegisterCalls
    /\ reg_call' = [reg_call EXCEPT ![t] =
                       [pc |-> IF Registered(registry, name) THEN "raised" ELSE "checked",
                        name |-> name, comp |-> component, n |-> reg_call[t].n + 1]]
    /\ log' = Append(log, [op |-> "check", name |-> name, comp |-> component,
                           ok |-> ~Registered(registry, name),
                           thread |-> t, n |-> reg_call[t].n + 1])
    /\ UNCHANGED <<call, cacheVars, registry, regResult, library, parseVars, heap, threadVars>>

\* register run by thread t, second step: `self._registry[name] = component`,
\* and the return.
RegisterInsert(t) ==
    /\ reg_call[t].pc = "checked"
    /\ registry' = Insert(registry, reg_call[t].name, reg_call[t].comp)
    /\ reg_call' = [reg_call EXCEPT ![t].pc = "returned"]
    /\ log' = Append(log, [op |-> "insert", name |-> reg_call[t].name,
                           comp |-> reg_call[t].comp, ok |-> TRUE,
                           thread |-> t, n |-> reg_call[t].n])
    /\ UNCHANGED <<call, cacheVars, regResult, library, parseVars, heap, threadVars>>

\* CachedTemplate(template_string, name=name).render(context) is called.
CachedRender(template_string, name) ==
    /\ Len(rendered) < MaxCacheRenders
    /\ LET r == CachedTemplate_render(template_cache, template_string, name)
       IN /\ template_cache' = r.cache
          /\ rendered' = Append(rendered, [name |-> name, template_string |-> template_string,
                                           used |-> r.used])
    /\ UNCHANGED <<call, reg_call, regVars, parseVars, heap, threadVars>>

\* component.register(name, target_register)(component): the registry entry is
\* added, which may raise, and then the two tags are installed in the library.
ComponentRegister(name, target_register, component) ==
    LET r == register(registry, name, component)
    IN /\ Call("register", name, component, r)
       /\ library' = IF r.exc = NoExc
                     THEN [library EXCEPT ![target_register] = InstallTags(@, name)]
                     ELSE library
       /\ UNCHANGED <<fnVars, parseVars, heap, threadVars>>

\* A template using tag_name, with library lib loaded, is compiled: the parser
\* calls the handler of the tag. do_component takes the block form when the
\* tag is the block spelling of its component, the inline form otherwise.
ParseTag(lib, tag_name) ==
    /\ Len(log) < MaxOps
    /\ tag_name \in DOMAIN library[lib]
    /\ library[lib][tag_name].kind = "component"
    /\ LET component_name == library[lib][tag_name].name
           nodelist == IF tag_name = format_block_start_tag(component_name)
                       THEN <<Child("var", 1)>> ELSE <<>>
           parsed == do_component(component_name, <<>>, nodelist)
       IN /\ children' = nodelist
          /\ tagAttrs' = <<>>
          /\ tree' = parsed.node
          /\ heap' = ParsedHeap(nodelist, parsed.default_slot)
          /\ log' = Append(log, [op |-> "parse", name |-> component_name,
                                 comp |-> IF nodelist = <<>> THEN "inline" ELSE "block",
                                 ok |-> TRUE])
    /\ UNCHANGED <<fnVars, registry, regResult, library, threadVars>>

\* ------------------------------------------------------ attribute tokens
\* A token of a tag is a sequence of chunks: a chunk of NameChunks is one or
\* more of the characters [\w\-\:\@\.\_], "=" is the equals sign, any other
\* chunk is one or more other characters.
NameChunks ==
    {"class", "required", "x-on:click", "@click", ":let", "v", "True", "title", "attributes"}
\* The name chunks made of word characters only.
WordChunks == NameChunks \ {"x-on:click", "@click", ":let"}
QuoteChunks == {"\"", "'"}
HasEquals(bit) == \E i \in 1..Len(bit) : bit[i] = "="

\* [bit if "=" in bit else f"{bit}=True" for bit in remaining_bits]
all_bits(remaining_bits) ==
    [i \in 1..Len(remaining_bits) |->
        IF HasEquals(remaining_bits[i]) THEN remaining_bits[i]
        ELSE remaining_bits[i] \o <<"=", "True">>]

\* The length of the longest prefix of bit made of name characters.
RECURSIVE NameLen(_)
NameLen(bit) ==
    IF bit # <<>> /\ Head(bit) \in NameChunks THEN 1 + NameLen(Tail(bit)) ELSE 0

\* kwarg_re.match(bit): (?:([name characters]+)=)?(.+). The optional group
\* takes part when the name is followed by "=" and something is left for
\* (.+); otherwise (.+) takes the whole token and group 1 is None. The empty
\* token does not match.
kwarg_re_match(bit) ==
    LET n == NameLen(bit)
    IN IF n >= 1 /\ Len(bit) >= n + 2 /\ bit[n + 1] = "="
       THEN [matched |-> TRUE, key |-> SubSeq(bit, 1, n),
             value |-> SubSeq(bit, n + 2, Len(bit))]
       ELSE [matched |-> bit # <<>>, key |-> <<>>, value |-> bit]

\* Whether FilterExpression(value) compiles: the empty token, a string in
\* matching quotes with no quote inside, one name of word characters. Anything
\* else is a TemplateSyntaxError.
FilterExpressionOk(value) ==
    \/ value = <<>>
    \/ /\ Len(value) >= 2
       /\ value[1] \in QuoteChunks /\ value[Len(value)] = value[1]
       /\ \A i \in 2..(Len(value) - 1) : value[i] \notin QuoteChunks
    \/ Len(value) = 1 /\ value[1] \in WordChunks

\* parser.compile_filter(value), for a value that compiles: the empty token
\* resolves to None, True is the literal True, a quoted string a literal
\* marked safe, anything else a variable reference.
compile_filter(value) ==
    IF value = <<>> THEN Lit(PyNone)
    ELSE IF value = <<"True">> THEN Lit(PyTrue)
    ELSE IF Len(value) >= 2 /\ value[1] \in QuoteChunks /\ value[Len(value)] = value[1]
    THEN Lit(mark_safe(SubSeq(value, 2, Len(value) - 1)))
    ELSE Var(Str(value))

\* A slip: a token that is not a keyword argument is skipped.
RECURSIVE TokenLoop_skips_malformed(_, _)
TokenLoop_skips_malformed(bits, kwargs) ==
    IF bits = <<>> THEN kwargs
    ELSE LET match == kwarg_re_match(bits[1])
         IN IF ~match.matched \/ match.key = <<>>
            THEN TokenLoop_skips_malformed(Tail(bits), kwargs)
            ELSE TokenLoop_skips_malformed(Tail(bits),
                     Put(kwargs, match.key, compile_filter(match.value)))

\* token_kwargs, the while loop.
RECURSIVE TokenLoop(_, _)
TokenLoop(bits, kwargs) ==
    IF bits = <<>> THEN kwargs
    ELSE LET match == kwarg_re_match(bits[1])
         IN IF ~match.matched \/ match.key = <<>> THEN kwargs
            ELSE TokenLoop(Tail(bits), Put(kwargs, match.key, compile_filter(match.value)))

token_kwargs(bits) ==
    IF bits = <<>> THEN <<>>
    ELSE IF ~kwarg_re_match(bits[1]).matched \/ kwarg_re_match(bits[1]).key = <<>> THEN <<>>
    ELSE TokenLoop(bits, <<>>)

\* ------------------------------------------------------ tag compilation
TemplateSyntaxError == "TemplateSyntaxError"

\* A slip: the arguments after the second are ignored.
do_render_slot_ignores_extra(remaining_bits) ==
    IF remaining_bits = <<>> THEN Raised(TemplateSyntaxError)
    ELSE IF ~FilterExpressionOk(remaining_bits[1]) THEN Raised(TemplateSyntaxError)
    ELSE IF Len(remaining_bits) >= 2 /\ ~FilterExpressionOk(remaining_bits[2])
    THEN Raised(TemplateSyntaxError)
    ELSE Returned([slot |-> compile_filter(remaining_bits[1]),
                   has_argument |-> Len(remaining_bits) >= 2,
                   argument |-> IF Len(remaining_bits) >= 2
                                THEN compile_filter(remaining_bits[2]) ELSE Lit(PyNone)])

\* do_render_slot: the RenderSlotNode(slot, argument), argument None (has_argument
\* false) when one argument is given.
do_render_slot(remaining_bits) ==
    IF remaining_bits = <<>> THEN Raised(TemplateSyntaxError)
    ELSE IF Len(remaining_bits) > 2 THEN Raised(TemplateSyntaxError)
    ELSE IF \E i \in 1..Len(remaining_bits) : ~FilterExpressionOk(remaining_bits[i])
    THEN Raised(TemplateSyntaxError)
    ELSE Returned([slot |-> compile_filter(remaining_bits[1]),
                   has_argument |-> Len(remaining_bits) = 2,
                   argument |-> IF Len(remaining_bits) = 2
                                THEN compile_filter(remaining_bits[2]) ELSE Lit(PyNone)])

\* bit.strip('"'): the double quotes at both ends removed.
RECURSIVE strip_double_quotes(_)
strip_double_quotes(bit) ==
    IF bit # <<>> /\ Head(bit) = "\"" THEN strip_double_quotes(Tail(bit))
    ELSE IF bit # <<>> /\ bit[Len(bit)] = "\""
    THEN strip_double_quotes(SubSeq(bit, 1, Len(bit) - 1))
    ELSE bit

\* The dict token_kwargs returned, its keys as strings; a name is one chunk.
RawAttributes(kwargs) == [i \in 1..Len(kwargs) |-> <<kwargs[i][1][1], kwargs[i][2]>>]

\* do_slot, from the tokens after the tag name and the body parsed up to
\* endslot.
do_slot_tag(remaining_bits, nodelist) ==
    IF Len(remaining_bits) < 1 THEN Raised(TemplateSyntaxError)
    ELSE Returned(do_slot(0, strip_double_quotes(remaining_bits[1]),
                          RawAttributes(token_kwargs(all_bits(Tail(remaining_bits)))),
                          nodelist))

\* The length of the longest prefix of s with no quote.
RECURSIVE UnquotedLen(_)
UnquotedLen(s) ==
    IF s # <<>> /\ Head(s) \notin QuoteChunks THEN 1 + UnquotedLen(Tail(s)) ELSE 0

\* attribute_re.match(pair): a name, the sign = or +=, and as value an optional
\* quote, what follows up to the next quote, and an optional quote. The match
\* is anchored at the start of pair only; `rest` is what it leaves over.
attribute_re_match(pair) ==
    LET n == NameLen(pair)
        sign == IF Len(pair) >= n + 1 /\ pair[n + 1] = "=" THEN <<"=">>
                ELSE IF Len(pair) >= n + 2 /\ pair[n + 1] = "+" /\ pair[n + 2] = "="
                THEN <<"+", "=">> ELSE <<>>
        after == SubSeq(pair, n + Len(sign) + 1, Len(pair))
        q1 == IF after # <<>> /\ after[1] \in QuoteChunks THEN 1 ELSE 0
        m == UnquotedLen(SubSeq(after, q1 + 1, Len(after)))
        q2 == IF Len(after) >= q1 + m + 1 THEN 1 ELSE 0
    IN IF n >= 1 /\ sign # <<>>
       THEN [matched |-> TRUE, attr |-> pair[1], sign |-> sign,
             value |-> SubSeq(after, 1, q1 + m + q2),
             rest |-> SubSeq(after, q1 + m + q2 + 1, Len(after))]
       ELSE [matched |-> FALSE, attr |-> "", sign |-> <<>>, value |-> <<>>, rest |-> <<>>]

\* do_merge_attrs, the loop over attr_list: the node built so far, or the
\* TemplateSyntaxError of a pair that does not match or whose value does not
\* compile.
RECURSIVE MergeAttrsPairs(_, _)
MergeAttrsPairs(attr_list, node) ==
    IF attr_list = <<>> THEN Returned(node)
    ELSE LET match == attribute_re_match(Head(attr_list))
         IN IF ~match.matched THEN Raised(TemplateSyntaxError)
            ELSE IF ~FilterExpressionOk(match.value) THEN Raised(TemplateSyntaxError)
            ELSE IF match.sign = <<"=">>
            THEN MergeAttrsPairs(Tail(attr_list),
                    [node EXCEPT !.default_attrs =
                        Append(@, <<match.attr, compile_filter(match.value)>>)])
            ELSE MergeAttrsPairs(Tail(attr_list),
                    [node EXCEPT !.append_attrs =
                        Append(@, <<match.attr, compile_filter(match.value)>>)])

\* do_merge_attrs: the MergeAttrsNode(attributes, default_attrs, append_attrs).
do_merge_attrs(remaining_bits) ==
    IF remaining_bits = <<>> THEN Raised(TemplateSyntaxError)
    ELSE IF ~FilterExpressionOk(remaining_bits[1]) THEN Raised(TemplateSyntaxError)
    ELSE MergeAttrsPairs(Tail(remaining_bits),
                         [attributes |-> compile_filter(remaining_bits[1]),
                          default_attrs |-> <<>>, append_attrs |-> <<>>])

\* ------------------------------------------- calls of attribute functions
\* The sequences over S of length at most n.
SeqsUpTo(S, n) == UNION {[1..k -> S] : k \in 0..n}
\* The dicts of at most MaxAttrs items, each one of pairs, in any order.
BagsOf(pairs) ==
    {d \in SeqsUpTo(pairs, MaxAttrs) : \A i, j \in 1..Len(d) : i # j => d[i][1] # d[j][1]}

\* Items passed to attributes_to_string: every kind of value it tells apart, a
\* str with a character to escape, plain and marked safe, and such a key.
StringPairs ==
    {"foo", "q'", "required"}
    \X {PyNone, PyFalse, PyTrue, PyInt(<<"0">>), Str(<<>>), Str(<<"bar">>),
        Str(<<"'", "baz", "'">>), mark_safe(<<"'", "bar", "'">>)}

\* attributes_to_string(bag) is called.
CallToString(bag) ==
    /\ call = NoCall
    /\ call' = [op |-> "attributes_to_string", args |-> <<bag>>,
                result |-> Returned(attributes_to_string(bag))]
    /\ UNCHANGED <<cacheVars, reg_call, regVars, parseVars, heap, threadVars>>

\* Items passed to merge_attributes: class values that differ and that repeat;
\* another key; the empty key.
MergePairs ==
    ({"class"} \X {Str(<<"baz">>), Str(<<"qux">>)})
    \cup ({"id"} \X {Str(<<"1">>), Str(<<"2">>)})
    \cup ({""} \X {Str(<<"e">>)})

\* merge_attributes(*bags) is called.
CallMerge(bags) ==
    /\ call = NoCall
    /\ call' = [op |-> "merge_attributes", args |-> bags,
                result |-> Returned(merge_attributes(bags))]
    /\ UNCHANGED <<cacheVars, reg_call, regVars, parseVars, heap, threadVars>>

\* Items of dicts that hold values marked safe, with characters that escaping
\* rewrites, and plain values.
SafePairs ==
    ({"class"} \X {mark_safe(<<"'", "s", "'">>), Str(<<"p">>)})
    \cup ({"id"} \X {mark_safe(<<"&", "amp;">>), Str(<<"p">>)})

\* attributes_to_string(merge_attributes(a, b)) is called.
CallMergeToString(a, b) ==
    /\ call = NoCall
    /\ call' = [op |-> "merge_to_string", args |-> <<a, b>>,
                result |-> Returned(attributes_to_string(merge_attributes(<<a, b>>)))]
    /\ UNCHANGED <<cacheVars, reg_call, regVars, parseVars, heap, threadVars>>

\* attributes_to_string(append_attributes(a, b)) is called.
CallAppendToString(a, b) ==
    /\ call = NoCall
    /\ call' = [op |-> "append_to_string", args |-> <<a, b>>,
                result |-> IF append_attributes(<<a, b>>).exc # NoExc
                           THEN append_attributes(<<a, b>>)
                           ELSE Returned(attributes_to_string(
                                            append_attributes(<<a, b>>).ret))]
    /\ UNCHANGED <<cacheVars, reg_call, regVars, parseVars, heap, threadVars>>

\* The merge_attrs tag: its key="value" pairs, its key+="value" pairs (string
\* literals, which the template engine marks safe) and what its attributes
\* expression may resolve to.
DefaultPairs ==
    ({"class"} \X {mark_safe(<<"a">>), mark_safe(<<"font-bold">>)})
    \cup ({"@click"} \X {mark_safe(<<"foo">>)})
AppendTagPairs ==
    ({"data"} \X {mark_safe(<<"bar">>)}) \cup ({"required"} \X {mark_safe(<<"x">>)})
SourcePairs ==
    ({"class"} \X {Str(<<"a">>), Str(<<"some-class">>)})
    \cup ({"id"} \X {Str(<<"123">>)})
    \cup ({"data"} \X {Str(<<"foo">>)})
    \cup ({"@click"} \X {Str(<<"own">>)})
    \cup ({"required"} \X {PyTrue})

\* {% merge_attrs attributes k="v" ... k+="v" ... %} is rendered.
CallMergeAttrsTag(bound_attributes, default_attrs, append_attrs) ==
    /\ call = NoCall
    /\ call' = [op |-> "merge_attrs",
                args |-> <<bound_attributes, default_attrs, append_attrs>>,
                result |-> MergeAttrsNode_render(bound_attributes, default_attrs,
                                                 append_attrs)]
    /\ UNCHANGED <<cacheVars, reg_call, regVars, parseVars, heap, threadVars>>

\* Values passed to normalize_class: strings with and without blanks around
\* them, the empty string, a dict with a truthy and a falsy value, lists.
ClassAtoms ==
    {Str(<<"a">>), Str(<<" ", "b", " ">>), Str(<<>>),
     PyDict(<<[key |-> <<"d">>, val |-> PyTrue], [key |-> <<"e">>, val |-> PyFalse]>>),
     PyList(<<Str(<<"b">>), Str(<<"c">>)>>), PyList(<<>>)}
ClassValues == ClassAtoms \cup {PyList(l) : l \in SeqsUpTo(ClassAtoms, MaxItems)}

\* normalize_class(value) is called.
CallNormalize(value) ==
    /\ call = NoCall
    /\ call' = [op |-> "normalize_class", args |-> <<value>>,
                result |-> Returned(normalize_class(value))]
    /\ UNCHANGED <<cacheVars, reg_call, regVars, parseVars, heap, threadVars>>

\* Items passed to append_attributes: two keys, str values and the True of a
\* bare flag.
AppendPairs ==
    ({"class"} \X {Str(<<"foo">>), Str(<<"baz">>)})
    \cup ({"id"} \X {Str(<<"bar">>), PyTrue})

\* append_attributes(*bags) is called.
CallAppend(bags) ==
    /\ call = NoCall
    /\ call' = [op |-> "append_attributes", args |-> bags,
                result |-> append_attributes(bags)]
    /\ UNCHANGED <<cacheVars, reg_call, regVars, parseVars, heap, threadVars>>

\* Attribute tokens of a tag: key="value" twice under one name, a bare flag,
\* a name with special characters and a value with an equals sign, and tokens
\* that are no keyword arguments: a bare token that is no name, an empty value,
\* an empty name, a name with a character it may not have.
Bits ==
    { <<"class", "=", "\"", "foo", "\"">>,
      <<"class", "=", "\"", "bar", "\"">>,
      <<"required">>,
      <<"x-on:click", "=", "\"", "a", "=", "b", "\"">>,
      <<"$">>,
      <<"class", "=">>,
      <<"=", "v">>,
      <<"@click", "$", "=", "v">> }

\* The attribute tokens remaining_bits of a component or slot tag are parsed.
CallTokenKwargs(remaining_bits) ==
    /\ call = NoCall
    /\ call' = [op |-> "token_kwargs", args |-> remaining_bits,
                result |-> Returned(token_kwargs(all_bits(remaining_bits)))]
    /\ UNCHANGED <<cacheVars, reg_call, regVars, parseVars, heap, threadVars>>

\* Elements of a SlotNodeList: a node without attributes, and slot nodes
\* whose attributes are empty and not.
ListNodes ==
    {TextNode(0, "hello"),
     SlotNode(0, "row", <<>>, <<>>, <<>>),
     [SlotNode(0, "row", <<>>, <<>>, <<>>) EXCEPT !.attributes = << <<"foo", "bar">> >>],
     [SlotNode(0, "row", <<>>, <<>>, <<>>) EXCEPT !.attributes = << <<"a", "one">> >>]}

\* The attributes property of a SlotNodeList is read.
CallSlotNodeListAttributes(list) ==
    /\ call = NoCall
    /\ call' = [op |-> "SlotNodeList.attributes", args |-> list,
                result |-> Returned(SlotNodeList_attributes(list))]
    /\ UNCHANGED <<cacheVars, reg_call, regVars, parseVars, heap, threadVars>>

\* Arguments of a render_slot tag: a variable, a string literal, and a token
\* that is no expression.
SlotTagBits == {<<"v">>, <<"\"", "title", "\"">>, <<"$">>}

\* {% render_slot ... %} is compiled.
CallRenderSlotTag(remaining_bits) ==
    /\ call = NoCall
    /\ call' = [op |-> "do_render_slot", args |-> remaining_bits,
                result |-> do_render_slot(remaining_bits)]
    /\ UNCHANGED <<cacheVars, reg_call, regVars, parseVars, heap, threadVars>>

\* Tokens of a slot tag: the name bare, in double quotes and in single quotes,
\* a :let attribute, a bare flag.
SlotBits ==
    {<<"title">>, <<"\"", "title", "\"">>, <<"'", "title", "'">>,
     <<":let", "=", "\"", "v", "\"">>, <<"required">>}

\* {% slot ... %}...{% endslot %} is compiled.
CallSlotTag(remaining_bits) ==
    /\ call = NoCall
    /\ call' = [op |-> "do_slot", args |-> remaining_bits,
                result |-> do_slot_tag(remaining_bits, <<TextNode(0, "L")>>)]
    /\ UNCHANGED <<cacheVars, reg_call, regVars, parseVars, heap, threadVars>>

\* Arguments of a merge_attrs tag after the attributes: pairs with = and +=,
\* quoted either way and not quoted; a token with no sign; a pair with text
\* after its closing quote; a pair whose quote is not closed; a pair whose name
\* has a character it may not have.
PairBits ==
    {<<"class", "=", "\"", "a", "\"">>,
     <<"class", "=", "'", "a", "'">>,
     <<"required", "+", "=", "\"", "b", "\"">>,
     <<"class", "=", "v">>,
     <<"foo">>,
     <<"class", "=", "\"", "a", "\"", "b">>,
     <<"class", "=", "\"", "a">>,
     <<"$", "=", "v">>}

\* {% merge_attrs ... %} is compiled.
CallMergeAttrsCompile(remaining_bits) ==
    /\ call = NoCall
    /\ call' = [op |-> "do_merge_attrs", args |-> remaining_bits,
                result |-> do_merge_attrs(remaining_bits)]
    /\ UNCHANGED <<cacheVars, reg_call, regVars, parseVars, heap, threadVars>>

\* ------------------------------------------------------ specifications
InitThreads ==
    /\ pc = [t \in Threads |-> "idle"]
    /\ ctx = [t \in Threads |-> <<>>]
    /\ base = [t \in Threads |-> <<>>]
    /\ impl = [t \in Threads |-> NoneV]
    /\ inst = [t \in Threads |-> <<>>]
    /\ idx = [t \in Threads |-> 0]
    /\ slots = [t \in Threads |-> <<>>]
    /\ attributes = [t \in Threads |-> <<>>]
    /\ seen = [t \in Threads |-> <<>>]
    /\ exc = [t \in Threads |-> NoExc]
    /\ renders = 0
    /\ rs = [t \in Threads |-> IdleSlotTag]
    /\ output = [t \in Threads |-> <<>>]

InitParser ==
    /\ children = <<>>
    /\ tagAttrs = <<>>
    /\ tree = ComponentNode("", <<>>, <<>>)
    /\ heap = <<>>

InitRegistryLog ==
    /\ regResult = [op |-> "init", name |-> NoneV, exc |-> NoExc, ret |-> NoneV]
    /\ log = <<>>
    /\ library = DefaultLibraries
    /\ call = NoCall
    /\ template_cache = <<>>
    /\ rendered = <<>>
    /\ reg_call = [t \in Threads |-> IdleRegister]

\* The registries a template is rendered against: "hello" registered as a
\* function component, as a class component, or not registered.
RenderRegistries ==
    {register(EmptyRegistry, "hello", c).reg : c \in Components} \cup {EmptyRegistry}

Kinds == UNION {[1..n -> ChildKinds] : n \in 0..MaxChildren}

\* One thread parses a component tag and renders it; the implementation renders
\* its slots with render_slot.
Init ==
    /\ registry \in RenderRegistries
    /\ InitRegistryLog /\ InitParser /\ InitThreads

ParseAny ==
    \E form \in {"block", "inline"}, a \in TagAttrChoices, kinds \in Kinds :
        Parse(form, a, kinds)

Next ==
    \/ ParseAny
    \/ StartRender(1, "one")
    \/ SlotStep(1) \/ AttributesStep(1) \/ RegistryGet(1)
    \/ DispatchFunction(1) \/ DispatchClass(1)
    \/ \E ref \in SlotRefs, arg \in ArgChoices : SlotTagBegin(1, ref, arg)
    \/ SlotTagLet(1) \/ SlotEnter(1) \/ SlotBody(1) \/ SlotLeave(1) \/ SlotTagNext(1)
    \/ MergeAttrsTag(1)
    \/ SetVar(1) \/ Return(1) \/ Raise(1) \/ Exit(1)

Spec == Init /\ [][Next]_vars

\* Two threads render the same parsed tree, each with its own context, their
\* steps interleaved; "hello" is a function component that reads what it is
\* handed and may write to it.
InitConc ==
    /\ registry = register(EmptyRegistry, "hello", "fn").reg
    /\ InitRegistryLog /\ InitParser /\ InitThreads

NextConc ==
    \/ ParseAny
    \/ \E t \in Threads :
          \/ \E val \in CtxValues : StartRender(t, val)
          \/ SlotStep(t) \/ AttributesStep(t) \/ RegistryGet(t) \/ DispatchFunction(t)
          \/ Observe(t) \/ Mutate(t) \/ Return(t) \/ Exit(t)

SpecConc == InitConc /\ [][NextConc]_vars

\* A registry and the calls made on it.
InitRegistry ==
    /\ registry = EmptyRegistry
    /\ InitRegistryLog /\ InitParser /\ InitThreads

NextRegistry ==
    \/ \E n \in Names, c \in Components : Register(n, c)
    \/ \E n \in Names : Unregister(n)
    \/ \E n \in Names : RegGet(n)
    \/ Clear

SpecRegistry == InitRegistry /\ [][NextRegistry]_vars

\* Components are registered with the decorator, in either library, removed
\* from the registry, and templates using their tags are compiled.
TagNames == UNION {{format_inline_tag(n), format_block_start_tag(n)} : n \in Names}

NextLibrary ==
    \/ \E n \in Names, l \in Libraries, c \in FunctionComponents : ComponentRegister(n, l, c)
    \/ \E n \in Names : Unregister(n)
    \/ Clear
    \/ \E l \in Libraries, tag \in TagNames : ParseTag(l, tag)

SpecLibrary == InitRegistry /\ [][NextLibrary]_vars

\* One of the functions of attributes.py and utils.py is called, once in a
\* behaviour.
NextAttributes ==
    \/ call = NoCall /\ \E bag \in BagsOf(StringPairs) : CallToString(bag)
    \/ call = NoCall /\ \E bags \in SeqsUpTo(BagsOf(MergePairs), MaxBags) : CallMerge(bags)
    \/ call = NoCall /\ \E a, b \in BagsOf(SafePairs) : CallMergeToString(a, b)
    \/ call = NoCall /\ \E a, b \in BagsOf(SafePairs) : CallAppendToString(a, b)
    \/ call = NoCall /\ \E source \in BagsOf(SourcePairs), defaults \in BagsOf(DefaultPairs),
          appends \in BagsOf(AppendTagPairs) :
              CallMergeAttrsTag(source, defaults, appends)
    \/ call = NoCall /\ \E value \in ClassValues : CallNormalize(value)
    \/ call = NoCall /\ \E bags \in SeqsUpTo(BagsOf(AppendPairs), MaxAppendBags) : CallAppend(bags)
    \/ call = NoCall /\ \E remaining_bits \in SeqsUpTo(Bits, MaxBits) : CallTokenKwargs(remaining_bits)
    \/ call = NoCall /\ \E list \in SeqsUpTo(ListNodes, MaxNodes) : CallSlotNodeListAttributes(list)

SpecAttributes == InitRegistry /\ [][NextAttributes]_vars

\* CachedTemplate objects with no name, the empty name and a name, and two
\* template strings, are rendered one after the other.
TemplateNames == {NoneV, "", "test"}
TemplateStrings == {"hello", "cached hello"}
NextCache ==
    \E template_string \in TemplateStrings, name \in TemplateNames :
        CachedRender(template_string, name)

SpecCache == InitRegistry /\ [][NextCache]_vars

\* Two threads call register on one registry, each call in two steps.
NextRegisterConc ==
    \E t \in Threads :
        \/ \E name \in Names, c \in Components : RegisterCheck(t, name, c)
        \/ RegisterInsert(t)

SpecRegisterConc == InitRegistry /\ [][NextRegisterConc]_vars

\* One of the tags render_slot, slot and merge_attrs is compiled, once in a
\* behaviour.
NextTags ==
    \/ call = NoCall /\ \E remaining_bits \in SeqsUpTo(SlotTagBits, MaxBits) :
                           CallRenderSlotTag(remaining_bits)
    \/ call = NoCall /\ \E remaining_bits \in SeqsUpTo(SlotBits, MaxBits) :
                           CallSlotTag(remaining_bits)
    \/ call = NoCall /\ CallMergeAttrsCompile(<<>>)
    \/ call = NoCall /\ \E pairs \in SeqsUpTo(PairBits, MaxBits - 1) :
                           CallMergeAttrsCompile(<<<<"attributes">>>> \o pairs)

SpecTags == InitRegistry /\ [][NextTags]_vars

\* ---------------------------------------------------------- properties
\* The component the call history leaves bound to name n: that of the most recent
\* successful register(n, _) not followed by a successful unregister(n) or a
\* clear(); NoneV when there is none.
RECURSIVE Latest(_, _)
Latest(history, n) ==
    IF history = <<>> THEN NoneV
    ELSE LET e == history[Len(history)]
         IN IF e.op = "clear" THEN NoneV
            ELSE IF e.op = "unregister" /\ e.name = n /\ e.ok THEN NoneV
            ELSE IF e.op = "register" /\ e.name = n /\ e.ok THEN e.comp
            ELSE Latest(SubSeq(history, 1, Len(history) - 1), n)

\* C10: after any sequence of register, unregister, clear and get calls, get(name)
\* returns the component of the most recent successful register(name) not since
\* removed by unregister(name) or clear(), and raises NotRegistered when there is
\* none; right after clear() every name is absent and can be registered again.
C10_GetReturnsLatestRegistration ==
    /\ \A n \in Names :
          IF Latest(log, n) = NoneV
          THEN get(registry, n).exc = "NotRegistered"
          ELSE get(registry, n).exc = NoExc /\ get(registry, n).ret = Latest(log, n)
    /\ regResult.op = "get" =>
          IF Latest(log, regResult.name) = NoneV
          THEN regResult.exc = "NotRegistered"
          ELSE regResult.exc = NoExc /\ regResult.ret = Latest(log, regResult.name)
    /\ regResult.op = "clear" =>
          \A n \in Names, c \in Components :
              /\ ~Registered(registry, n)
              /\ register(registry, n, c).exc = NoExc
              /\ get(register(registry, n, c).reg, n).ret = c

\* A name registered, removed, registered again with another component, then read.
C10_Witness ==
    /\ Len(log) = 4
    /\ log[1].op = "register" /\ log[1].ok /\ log[1].name = "hello" /\ log[1].comp = "fn"
    /\ log[2].op \in {"unregister", "clear"} /\ log[2].ok
    /\ log[2].op = "unregister" => log[2].name = "hello"
    /\ log[3].op = "register" /\ log[3].ok /\ log[3].name = "hello" /\ log[3].comp = "cls"
    /\ regResult.op = "get" /\ regResult.name = "hello" /\ regResult.ret = "cls"

\* The ids occurring in the lists of a slots dict, with multiplicity.
RECURSIVE Flatten(_)
Flatten(slotsDict) ==
    IF slotsDict = <<>> THEN <<>> ELSE Head(slotsDict)[2] \o Flatten(Tail(slotsDict))
Occurrences(seq, x) == Cardinality({i \in 1..Len(seq) : seq[i] = x})
Increasing(seq) == \A i, j \in 1..Len(seq) : i < j => seq[i] < seq[j]
NodeIds(nodelist) == [i \in 1..Len(nodelist) |-> nodelist[i].id]

\* C6: parsing a block component invocation partitions its direct children
\* without loss or duplication: every SlotNode child occurs exactly once in slots,
\* in the list of its name, and each list is in source order; every other child
\* occurs exactly once, in the body of the one implicit default SlotNode, in source
\* order, and that SlotNode is filed once under the default name; two `slot row`
\* children give slots.row = those two nodes in order.
C6_ChildrenPartitioned ==
    tree.name # "" =>
        LET default_slot == heap[DefaultId(children)]
            SlotChildren == {i \in 1..Len(children) : IsSlotNode(children[i])}
            Others == (1..Len(children)) \ SlotChildren
        IN /\ \A i \in SlotChildren :
                 /\ Occurrences(Flatten(tree.slots), i) = 1
                 /\ Has(tree.slots, children[i].name)
                 /\ Occurrences(Get(tree.slots, children[i].name), i) = 1
                 /\ heap[i] = children[i]
           /\ \A i \in Others :
                 /\ Occurrences(Flatten(tree.slots), i) = 0
                 /\ Occurrences(NodeIds(default_slot.nodelist), i) = 1
                 /\ \E j \in 1..Len(default_slot.nodelist) :
                        default_slot.nodelist[j] = children[i]
           /\ Len(default_slot.nodelist) = Cardinality(Others)
           /\ Len(Flatten(tree.slots)) =
                 Cardinality(SlotChildren) + (IF Others = {} THEN 0 ELSE 1)
           /\ Others # {} =>
                 Occurrences(Get(tree.slots, DEFAULT_SLOT_NAME), default_slot.id) = 1
           /\ \A k \in 1..Len(tree.slots) : Increasing(tree.slots[k][2])
           /\ Increasing(NodeIds(default_slot.nodelist))
           /\ (Len(children) = 2 /\ SlotChildren = {1, 2}
                 /\ children[1].name = "row" /\ children[2].name = "row")
              => Get(tree.slots, "row") = <<1, 2>>

\* Two `slot row` children, and: a slot, default content, a slot of another name.
C6_Witness ==
    /\ tree.name # ""
    /\ Len(children) = 2
    /\ IsSlotNode(children[1]) /\ IsSlotNode(children[2])
    /\ children[1].name = "row" /\ children[2].name = "row"
    /\ Get(tree.slots, "row") = <<1, 2>>

\* The SlotNode objects as the parser left them.
Parsed == ParsedHeap(children, do_component("hello", tagAttrs, children).default_slot)

\* C1: rendering a ComponentNode never writes to the parsed tree: after any number
\* of renders in different contexts every parsed SlotNode (its attributes, still
\* the empty bag, and every other field), the node's slots mapping and its
\* unresolved attributes are as parsed; the slot nodes handed to a render are
\* objects of that render alone, none of them a parsed node, and when they are
\* handed over their attributes, and the component's attribute bag, are those
\* resolved against that render's context, whatever earlier renders resolved or
\* their components wrote.
C1_RenderLeavesParsedTreeUntouched ==
    tree.name # "" =>
        /\ tree = do_component("hello", tagAttrs, children).node
        /\ \A id \in DOMAIN Parsed : heap[id] = Parsed[id] /\ heap[id].attributes = <<>>
        /\ \A t \in Threads :
              /\ Handed(t) \cap DOMAIN Parsed = {}
              /\ \A u \in Threads \ {t} : Handed(t) \cap Handed(u) = {}
              /\ pc[t] \in {"get", "dispatch"} =>
                    /\ attributes[t] = ResolveAttributes(tree.unresolved_attributes, base[t])
                    /\ Len(slots[t]) = Len(tree.slots)
                    /\ \A k \in 1..Len(tree.slots) :
                          /\ slots[t][k][1] = tree.slots[k][1]
                          /\ Len(slots[t][k][2]) = Len(tree.slots[k][2])
                          /\ \A j \in 1..Len(tree.slots[k][2]) :
                                heap[slots[t][k][2][j]] =
                                    [Parsed[tree.slots[k][2][j]] EXCEPT
                                        !.id = slots[t][k][2][j],
                                        !.attributes = ResolveAttributes(
                                            Parsed[tree.slots[k][2][j]].unresolved_attributes,
                                            base[t])]

\* The second render of a tree with a slot whose attribute reads the context,
\* about to hand its clones to the implementation.
C1_Witness ==
    /\ renders = 2
    /\ pc[1] = "dispatch" /\ pc[2] = "idle"
    /\ base[1] = BaseContext("two")
    /\ Has(tree.slots, "row")
    /\ \E id \in Handed(1) : heap[id].attributes = << <<"a", "two">> >>

\* What the implementation run by thread t must read: per slot name, the
\* attributes of each parsed slot resolved against the context of t's render.
OwnView(t) ==
    [k \in 1..Len(tree.slots) |->
        <<tree.slots[k][1],
          [j \in 1..Len(tree.slots[k][2]) |->
              ResolveAttributes(Parsed[tree.slots[k][2][j]].unresolved_attributes, base[t])]>>]

\* C2: when two renders of the same parsed ComponentNode, each with its own
\* context, are interleaved at any step, the attributes and the slot attributes
\* each implementation reads are those resolved against its own context, never
\* those of the other render.
C2_InterleavedRendersReadOwnAttributes ==
    \A t \in Threads :
        seen[t] # <<>> =>
            /\ seen[t][1].slots = OwnView(t)
            /\ seen[t][1].attributes = ResolveAttributes(tree.unresolved_attributes, base[t])

\* Both implementations are running, on different contexts, and have read
\* different slot attributes.
C2_Witness ==
    /\ pc[1] = "body" /\ pc[2] = "body"
    /\ base[1] # base[2]
    /\ seen[1] # <<>> /\ seen[2] # <<>>
    /\ seen[1][1].slots # seen[2][1].slots

\* C3: rendering a ComponentNode (function or class implementation) or a SlotNode
\* leaves the scope stack exactly as it was before the call, whether the
\* implementation or slot body returned or raised: the pushed layer is popped in
\* every case and attributes, slots and the context data are no longer bound.
C3_ScopeStackRestored ==
    \A t \in Threads :
        /\ pc[t] \in {"done", "raised"} =>
              /\ ctx[t] = base[t]
              /\ \A k \in {"attributes", "slots", "extra"} : ~Defined(ctx[t], k)
        /\ rs[t].phase = "unlet" => ctx[t] = rs[t].entry
        /\ (pc[t] = "body" /\ rs[t].phase \in {"idle", "let"}) =>
              /\ Len(ctx[t]) = Len(base[t]) + 1
              /\ ~Has(ctx[t][Len(ctx[t])], "x")

\* A class component whose slot body raised inside render_slot: the exception
\* reached the caller and the stack is the caller's.
C3_Witness ==
    /\ pc[1] = "raised" /\ exc[1] = "SlotError"
    /\ impl[1] \in ClassComponents
    /\ ctx[1] = BaseContext("one")

\* The threads whose render_slot tag is at work on a slot node.
InSlot(t) == pc[t] = "body" /\ rs[t].phase \in {"let", "enter", "body", "leave", "unlet"}

\* C4: when render_slot is given an argument expression and the rendered slot
\* declares a :let name, then whatever the argument resolves to, the slot body is
\* rendered with that name bound to that value; the binding is gone when that
\* slot's render has returned, after render_slot and while the next slot of the
\* list is rendered.
C4_ArgumentBoundForAnyValue ==
    \A t \in Threads :
        /\ (InSlot(t) /\ rs[t].phase = "body" /\ rs[t].hasArg
                /\ Truthy(LetName(CurrentSlot(t), rs[t].start))) =>
              /\ Defined(ctx[t], LetName(CurrentSlot(t), rs[t].start))
              /\ Lookup(ctx[t], LetName(CurrentSlot(t), rs[t].start)) = rs[t].argument
        /\ (pc[t] = "body" /\ rs[t].phase \in {"idle", "let"}) => ~Defined(ctx[t], "x")

RECURSIVE RenderEach(_, _, _)
RenderEach(ids, argument, stack) ==
    IF ids = <<>> THEN <<>>
    ELSE render_slot(heap[Head(ids)], argument, stack)
         \o RenderEach(Tail(ids), argument, stack)

\* C7: the output of render_slot is decided by what its slot reference resolves
\* to: nothing (the name is not in slots, or slots.<name>.0 of an empty list)
\* gives the empty output and no error; a list of nodes gives the renderings of
\* its nodes, concatenated in list order; a single slot node gives that node
\* rendered once.
C7_RenderSlotOutput ==
    \A t \in Threads :
        (pc[t] = "body" /\ rs[t].phase = "idle" /\ rs[t].calls > 0) =>
            LET stack == rs[t].start
                ref == rs[t].ref
                resolves == Defined(stack, "slots") /\ Has(Lookup(stack, "slots"), ref.name)
                list == Get(Lookup(stack, "slots"), ref.name)
            IN /\ exc[t] = NoExc
               /\ ctx[t] = stack
               /\ ~resolves => rs[t].out = <<>>
               /\ (resolves /\ ~ref.first) =>
                     rs[t].out = RenderEach(list, rs[t].argument, stack)
               /\ (resolves /\ ref.first /\ list = <<>>) => rs[t].out = <<>>
               /\ (resolves /\ ref.first /\ list # <<>>) =>
                     rs[t].out = render_slot(heap[list[1]], rs[t].argument, stack)

\* {% render_slot slots.row "u1" %} over two `slot row` nodes is done.
C7_Witness ==
    /\ pc[1] = "body" /\ rs[1].phase = "idle" /\ rs[1].calls > 0
    /\ rs[1].ref = [name |-> "row", first |-> FALSE]
    /\ Has(slots[1], "row") /\ Len(Get(slots[1], "row")) = 2
    /\ rs[1].out = <<"L", "u1", "L", "u1">>

\* C8: render_component dispatches on the registered implementation. A function
\* is called with attributes and slots bound in one newly pushed layer, and no
\* instance is made; a class is instantiated with (attributes, slots) and every
\* entry of its get_context_data() is bound in the same pushed layer, next to
\* attributes and slots; what the implementation returns is the output.
C8_DispatchOnImplementation ==
    \A t \in Threads :
        /\ pc[t] = "body" =>
              LET layer == ctx[t][Len(base[t]) + 1]
              IN /\ Len(ctx[t]) >= Len(base[t]) + 1
                 /\ SubSeq(ctx[t], 1, Len(base[t])) = base[t]
                 /\ impl[t] = get(registry, tree.name).ret
                 /\ Has(layer, "attributes") /\ Has(layer, "slots")
                 /\ impl[t] \in FunctionComponents =>
                       /\ inst[t] = <<>>
                       /\ Get(layer, "attributes") = attributes[t]
                       /\ Get(layer, "slots") = slots[t]
                       /\ KeySet(layer) \subseteq {"attributes", "slots", "v"}
                 /\ impl[t] \in ClassComponents =>
                       /\ Len(inst[t]) = 1
                       /\ inst[t][1].attributes = attributes[t]
                       /\ inst[t][1].slots = slots[t]
                       /\ \A k \in KeySet(inst[t][1].data) :
                             Has(layer, k) /\ Get(layer, k) = Get(inst[t][1].data, k)
                       /\ \A k \in {"attributes", "slots"} \ KeySet(inst[t][1].data) :
                             Get(layer, k) = (IF k = "slots" THEN slots[t] ELSE attributes[t])
                       /\ KeySet(layer) \subseteq
                             {"attributes", "slots", "v"} \cup KeySet(inst[t][1].data)
        /\ pc[t] \in {"exit", "done"} /\ exc[t] = NoExc => output[t] = rs[t].out

\* A class component at work, its context data bound next to attributes and slots.
C8_Witness ==
    /\ pc[1] = "body" /\ impl[1] \in ClassComponents
    /\ inst[1][1].data # <<>>
    /\ Lookup(ctx[1], "extra") = "e"
    /\ Has(ctx[1][2], "slots")

\* C9: rendering a ComponentNode whose name is not registered at render time
\* raises NotRegistered to the caller of render: no implementation is invoked,
\* no output is produced, and the scope stack is as before the call.
C9_UnregisteredRaises ==
    \A t \in Threads :
        /\ exc[t] = "NotRegistered" =>
              /\ pc[t] = "raised"
              /\ ctx[t] = base[t]
              /\ impl[t] = NoneV /\ inst[t] = <<>>
              /\ output[t] = <<>>
        /\ (tree.name # "" /\ ~Registered(registry, tree.name)) =>
              /\ pc[t] \notin {"dispatch", "body", "exit", "done"}
              /\ pc[t] = "raised" => exc[t] = "NotRegistered"

\* The tag was parsed, rendered against a registry without its name, and the
\* render raised.
C9_Witness ==
    /\ pc[1] = "raised" /\ exc[1] = "NotRegistered"
    /\ ~Registered(registry, "hello")
    /\ tree.slots # <<>>

\* C11: a registry call that fails leaves the mapping exactly as it was:
\* register(name, c) with name present raises AlreadyRegistered and the component
\* registered before stays bound to name; get(name) and unregister(name) with name
\* absent raise NotRegistered; a successful unregister(name) removes that name
\* only and leaves every other entry as it was.
C11_FailedCallsChangeNothing ==
    [][log' # log =>
        LET r == regResult'
        IN /\ r.exc # NoExc => registry' = registry
           /\ (r.op = "register" /\ Registered(registry, r.name)) =>
                 /\ r.exc = "AlreadyRegistered"
                 /\ registry'[r.name] = registry[r.name]
           /\ (r.op \in {"get", "unregister"} /\ ~Registered(registry, r.name)) =>
                 r.exc = "NotRegistered"
           /\ r.op = "get" => registry' = registry
           /\ (r.op = "unregister" /\ r.exc = NoExc) =>
                 /\ DOMAIN registry' = DOMAIN registry \ {r.name}
                 /\ \A n \in DOMAIN registry' : registry'[n] = registry[n]
           /\ (r.op = "register" /\ r.exc = NoExc) =>
                 \A n \in DOMAIN registry : registry'[n] = registry[n]]_vars

\* "hello" was registered as a function, a second register with a class raised,
\* and the function is still what the name is bound to, next to another entry.
C11_Witness ==
    /\ regResult.op = "register" /\ regResult.exc = "AlreadyRegistered"
    /\ regResult.name = "hello"
    /\ log[Len(log)].comp = "cls"
    /\ Registered(registry, "card")
    /\ registry["hello"] = "fn"

\* The libraries in which the decorator installed both tags of this name.
Installed(name) ==
    {l \in Libraries :
        /\ format_inline_tag(name) \in DOMAIN library[l]
        /\ format_block_start_tag(name) \in DOMAIN library[l]
        /\ library[l][format_inline_tag(name)] = ComponentTag(name)
        /\ library[l][format_block_start_tag(name)] = ComponentTag(name)}

\* C12: component.register(name) adds the entry to the global registry and
\* installs one handler under the inline spelling (#name) and one under the
\* block-start spelling (name), both bound to that name. After any sequence of
\* register, unregister and clear every registered name has both handlers
\* installed; unregister and clear remove registry entries only, never a handler,
\* so a template using the tag of a removed component still compiles to a
\* ComponentNode of that name.
C12_RegisteredNamesHaveTags ==
    /\ \A n \in DOMAIN registry : Installed(n) # {}
    /\ \A i \in 1..Len(log) :
          (log[i].op = "register" /\ log[i].ok) => Installed(log[i].name) # {}
    /\ \A l \in Libraries :
          /\ \A t \in DOMAIN DefaultLibraries[l] : t \in DOMAIN library[l]
          /\ \A n \in Names :
                (format_inline_tag(n) \in DOMAIN library[l]
                    \/ format_block_start_tag(n) \in DOMAIN library[l])
                => \E i \in 1..Len(log) :
                       log[i].op = "register" /\ log[i].ok /\ log[i].name = n
    /\ (regResult.op = "register" /\ regResult.exc = NoExc) =>
          /\ Registered(registry, regResult.name)
          /\ format_inline_tag(regResult.name) = <<"#", regResult.name>>
          /\ format_block_start_tag(regResult.name) = <<regResult.name>>
    /\ (log # <<>> /\ log[Len(log)].op = "parse") =>
          /\ tree.name = log[Len(log)].name
          /\ Installed(tree.name) # {}
          /\ Has(tree.slots, DEFAULT_SLOT_NAME)

\* "hello" was registered, then removed from the registry, and a template using
\* {% #hello %} was compiled after that.
C12_Witness ==
    /\ Len(log) = 3
    /\ log[1].op = "register" /\ log[1].ok /\ log[1].name = "hello"
    /\ log[2].op \in {"unregister", "clear"} /\ log[2].ok
    /\ log[3].op = "parse" /\ log[3].comp = "inline"
    /\ ~Registered(registry, "hello")
    /\ tree.name = "hello"

\* What attributes_to_string must give for the items from position i on: the
\* first item that emits something, then a blank and the rest when the rest
\* emits something.
RECURSIVE Emitted(_, _)
Emitted(bag, i) ==
    IF i > Len(bag) THEN <<>>
    ELSE LET key == bag[i][1]
             value == bag[i][2]
             rest == Emitted(bag, i + 1)
             item == IF value.kind = "true" THEN <<EscapePiece(key)>>
                     ELSE <<EscapePiece(key), "=\"">>
                          \o (IF value.kind = "str" /\ value.safe THEN value.s
                              ELSE [k \in 1..Len(PyStr(value)) |-> EscapePiece(PyStr(value)[k])])
                          \o <<"\"">>
         IN IF value.kind \in {"none", "false"} THEN rest
            ELSE IF rest = <<>> THEN item
            ELSE item \o <<" ">> \o rest

\* C14: attributes_to_string(bag) visits the keys in insertion order and joins
\* what they emit with single blanks: a value None or False emits nothing, True
\* emits the escaped key alone, any other value emits key="value" with the value
\* HTML-escaped (a value marked safe is taken as already escaped); the empty bag
\* and a bag of None / False values give the empty string; the result is marked
\* safe.
C14_AttributesToString ==
    call.op = "attributes_to_string" =>
        LET bag == call.args[1]
            out == call.result.ret
        IN /\ call.result.exc = NoExc
           /\ out.kind = "str" /\ out.safe
           /\ out.s = Emitted(bag, 1)
           /\ (\A i \in 1..Len(bag) : bag[i][2].kind \in {"none", "false"}) => out.s = <<>>
           /\ \A i \in 1..Len(bag) :
                 bag[i][2] = Str(<<"'", "baz", "'">>) =>
                     \E k \in 1..(Len(out.s) - 4) :
                         SubSeq(out.s, k, k + 4)
                             = <<"=\"", "&#x27;", "baz", "&#x27;", "\"">>

\* {"required": True, "foo": "'baz'"} gives required foo="&#x27;baz&#x27;".
C14_Witness ==
    /\ call.op = "attributes_to_string"
    /\ call.args[1] = << <<"required", PyTrue>>, <<"foo", Str(<<"'", "baz", "'">>)>> >>
    /\ call.result.ret.s
          = <<"required", " ", "foo", "=\"", "&#x27;", "baz", "&#x27;", "\"">>

\* The values the dicts of bags have under key, in the order of the dicts.
RECURSIVE ValuesOf(_, _)
ValuesOf(bags, key) ==
    IF bags = <<>> THEN <<>>
    ELSE (IF Has(Head(bags), key) THEN <<Get(Head(bags), key)>> ELSE <<>>)
         \o ValuesOf(Tail(bags), key)

\* C13: merge_attributes(b1, ..., bn) returns a new AttributeBag and leaves its
\* inputs as they were; every key other than class and "" has the value of the
\* last bag that has it, "" never appears, and class is the normalization of the
\* list of the class values of all the bags that have one, in bag order, none of
\* them overwritten or dropped.
C13_MergeAttributes ==
    call.op = "merge_attributes" =>
        LET bags == call.args
            result == call.result.ret
            All == UNION {KeySet(bags[i]) : i \in 1..Len(bags)}
        IN /\ call.result.exc = NoExc
           /\ KeySet(result) = All \ {""}
           /\ \A key \in KeySet(result) \ {"class"} :
                 Get(result, key) = ValuesOf(bags, key)[Len(ValuesOf(bags, key))]
           /\ "class" \in All =>
                 Get(result, "class") = normalize_class(PyList(ValuesOf(bags, "class")))

\* sub occurs in seq, its pieces next to each other.
Contains(seq, sub) ==
    \E k \in 0..(Len(seq) - Len(sub)) : SubSeq(seq, k + 1, k + Len(sub)) = sub

\* C15: for all attribute bags a and b and every key, class included, a value
\* marked safe in a or b is not escaped again in
\* attributes_to_string(merge_attributes(a, b)): a safe value that is in the
\* merged value of its key is written out as it is; the same holds of
\* attributes_to_string(append_attributes(a, b)).
C15_SafeValuesNotEscapedAgain ==
    call.op \in {"merge_to_string", "append_to_string"} =>
        LET bags == call.args
            out == call.result.ret.s
        IN /\ call.result.exc = NoExc
           /\ \A key \in UNION {KeySet(bags[i]) : i \in 1..Len(bags)} :
                 LET values == ValuesOf(bags, key)
                     kept == IF call.op = "merge_to_string" /\ key # "class"
                             THEN {Len(values)} ELSE 1..Len(values)
                 IN \A i \in kept : values[i].safe => Contains(out, values[i].s)

\* What the merge_attrs tag must give a key: the source value over the default
\* value, for class the default class followed by the source class; then the +=
\* value appended after one blank, or set when the key has no value yet.
TagValue(key, source, defaults, appends) ==
    LET merged ==
            IF key = "class" /\ Has(defaults, key) /\ Has(source, key)
            THEN <<Get(defaults, key).s \o <<" ">> \o Get(source, key).s>>
            ELSE IF Has(source, key) THEN <<PyStr(Get(source, key))>>
            ELSE IF Has(defaults, key) THEN <<PyStr(Get(defaults, key))>>
            ELSE <<>>
    IN IF ~Has(appends, key) THEN merged[1]
       ELSE IF merged = <<>> THEN Get(appends, key).s
       ELSE merged[1] \o <<" ">> \o Get(appends, key).s

\* C16: the merge_attrs tag renders
\* attributes_to_string(append_attributes(merge_attributes(defaults, source), appends)):
\* a non-class key present in defaults and source takes the source value, class
\* is the default class followed by the source class, and each += value is
\* appended with one blank to the merged value of its key, or set when the key
\* is absent; every key is written out with that value (a key that is True and
\* has no += value, alone).
C16_MergeAttrsTag ==
    call.op = "merge_attrs" =>
        LET source == call.args[1]
            defaults == call.args[2]
            appends == call.args[3]
        IN /\ call.result.exc = NoExc
           /\ \A key \in KeySet(source) \cup KeySet(defaults) \cup KeySet(appends) :
                 IF Has(source, key) /\ Get(source, key) = PyTrue /\ ~Has(appends, key)
                 THEN Contains(<<" ">> \o call.result.ret.s \o <<" ">>, <<" ", key, " ">>)
                 ELSE Contains(<<" ">> \o call.result.ret.s,
                               <<" ", key, "=\"">>
                               \o TagValue(key, source, defaults, appends) \o <<"\"">>)

\* The render of {% hello id="123" class="some-class" %}{% endhello %} by a
\* function component is over, and what the component returned is what its
\* merge_attrs tag rendered.
ExampleRendered(t) ==
    /\ pc[t] = "done" /\ impl[t] \in FunctionComponents
    /\ tagAttrs = ExampleTagAttrs
    /\ rs[t].tag = "merge_attrs"

\* C17, as the specification states it: the template
\* {% hello id="123" class="some-class" %}{% endhello %}, hello emitting
\* merge_attrs attributes class="font-bold" @click="foo", renders the attribute
\* string id="123" class="font-bold some-class" @click="foo".
C17_ExampleAttributeString ==
    \A t \in Threads :
        ExampleRendered(t) =>
            output[t] = <<"id", "=\"", "123", "\"", " ",
                          "class", "=\"", "font-bold", " ", "some-class", "\"", " ",
                          "@click", "=\"", "foo", "\"">>

\* C17, amended: the render gives the same three attributes with the same
\* values, the keys of the tag's pairs first:
\* class="font-bold some-class" @click="foo" id="123".
C17_ExampleAttributes ==
    \A t \in Threads :
        ExampleRendered(t) =>
            output[t] = <<"class", "=\"", "font-bold", " ", "some-class", "\"", " ",
                          "@click", "=\"", "foo", "\"", " ",
                          "id", "=\"", "123", "\"">>

C17_Witness == ExampleRendered(1) /\ output[1] # <<>>

\* The class string the specification gives for value: a string is itself, a
\* list is its non-empty normalized elements joined by single blanks, a dict
\* is its keys of truthy value joined by single blanks.
RECURSIVE StatedClass(_)
StatedClassList(items) ==
    SelectSeq([i \in 1..Len(items) |-> StatedClass(items[i])], LAMBDA e : e # <<>>)
StatedClass(value) ==
    CASE value.kind = "str" -> value.s
      [] value.kind = "list" -> join(<<" ">>, StatedClassList(value.items))
      [] value.kind = "dict" ->
            join(<<" ">>, [i \in 1..Len(SelectSeq(value.items, LAMBDA e : PyTruthy(e.val)))
                             |-> SelectSeq(value.items, LAMBDA e : PyTruthy(e.val))[i].key])
      [] OTHER -> <<>>

\* C18: normalize_class returns, for a string, the string itself; for a list
\* or tuple, its recursively normalized non-empty elements joined by single
\* spaces; for a mapping, the keys whose value is truthy joined by single
\* spaces; ["a", ["b", "c"], {d: true, e: false}] gives "a b c d".
C18_NormalizeClass ==
    call.op = "normalize_class" =>
        /\ call.result.exc = NoExc
        /\ call.result.ret.s = StatedClass(call.args[1])
        /\ call.args[1] = PyList(<<Str(<<"a">>), PyList(<<Str(<<"b">>), Str(<<"c">>)>>),
                                   PyDict(<<[key |-> <<"d">>, val |-> PyTrue],
                                            [key |-> <<"e">>, val |-> PyFalse]>>)>>)
              => call.result.ret.s = <<"a", " ", "b", " ", "c", " ", "d">>

\* C19: append_attributes(b1, ..., bn) returns, for every value a bag may hold,
\* a new AttributeBag in which a key of one bag only keeps its value and a key
\* of several bags has their values joined by single spaces in bag order,
\* class like any other key; append({class: foo}, {id: bar}, {class: baz})
\* gives {class: "foo baz", id: "bar"}.
C19_AppendAttributes ==
    call.op = "append_attributes" =>
        LET bags == call.args
            result == call.result.ret
        IN /\ call.result.exc = NoExc
           /\ KeySet(result) = UNION {KeySet(bags[i]) : i \in 1..Len(bags)}
           /\ \A key \in KeySet(result) :
                 LET values == ValuesOf(bags, key)
                 IN IF Len(values) = 1 THEN Get(result, key) = values[1]
                    ELSE Get(result, key).s
                           = join(<<" ">>, [i \in 1..Len(values) |-> PyStr(values[i])])
           /\ bags = << << <<"class", Str(<<"foo">>)>> >>, << <<"id", Str(<<"bar">>)>> >>,
                        << <<"class", Str(<<"baz">>)>> >> >>
                 => result = << <<"class", Str(<<"foo", " ", "baz">>)>>,
                                <<"id", Str(<<"bar">>)>> >>

\* token has the form name=value: a name of one or more name characters, an
\* equals sign, a value that is not empty.
NameValue(token) ==
    \E k \in 1..(Len(token) - 2) :
        /\ \A i \in 1..k : token[i] \in NameChunks
        /\ token[k + 1] = "="
NameOf(token) ==
    SubSeq(token, 1, CHOOSE k \in 1..(Len(token) - 2) :
                         (\A i \in 1..k : token[i] \in NameChunks) /\ token[k + 1] = "=")
ValueOf(token) == SubSeq(token, Len(NameOf(token)) + 2, Len(token))
\* A token with no equals sign stands for token=True.
Rewritten(token) == IF HasEquals(token) THEN token ELSE token \o <<"=", "True">>

\* C20: of the attribute tokens of a tag, each one without "=" rewritten to
\* token=True, those up to the first that has not the form name=value (name of
\* word characters and - : @ . _) are the attributes, none when the first has
\* not the form; a repeated name has its last value; a bare flag resolves to
\* True; `hello class="foo" required` yields {class: "foo", required: True}.
C20_TokenKwargs ==
    call.op = "token_kwargs" =>
        LET tokens == [i \in 1..Len(call.args) |-> Rewritten(call.args[i])]
            n == CHOOSE k \in 0..Len(tokens) :
                    /\ \A i \in 1..k : NameValue(tokens[i])
                    /\ k < Len(tokens) => ~NameValue(tokens[k + 1])
            result == call.result.ret
        IN /\ call.result.exc = NoExc
           /\ KeySet(result) = {NameOf(tokens[i]) : i \in 1..n}
           /\ \A i, j \in 1..Len(result) : i # j => result[i][1] # result[j][1]
           /\ \A i \in 1..n :
                 (\A j \in (i + 1)..n : NameOf(tokens[j]) # NameOf(tokens[i]))
                    => /\ Get(result, NameOf(tokens[i])) = compile_filter(ValueOf(tokens[i]))
                       /\ ~HasEquals(call.args[i])
                             => Resolve(Get(result, NameOf(tokens[i])), <<>>, FALSE) = PyTrue
           /\ call.args = << <<"class", "=", "\"", "foo", "\"">>, <<"required">> >>
                 => result = << <<<<"class">>, Lit(mark_safe(<<"foo">>))>>,
                                <<<<"required">>, Lit(PyTrue)>> >>

\* `hello class="foo" required` was parsed; so was a tag whose second token is
\* no keyword argument and whose third is one.
C20_Witness ==
    /\ call.op = "token_kwargs"
    /\ \/ call.args = << <<"class", "=", "\"", "foo", "\"">>, <<"required">> >>
       \/ /\ Len(call.args) = 3
          /\ NameValue(Rewritten(call.args[1]))
          /\ ~NameValue(Rewritten(call.args[2]))
          /\ NameValue(Rewritten(call.args[3]))
    /\ Len(call.result.ret) >= 1

\* The entries of the dict d whose key is / is not the scope-binding marker.
LetEntries(d) == SelectSeq(d, LAMBDA e : e[1] = LET_KEY)
OtherEntries(d) == SelectSeq(d, LAMBDA e : e[1] # LET_KEY)

\* The raw attributes the slot tag of a child node was written with.
RawSlotAttributes(node) == node.special \o node.unresolved_attributes

\* C21: the attributes of a tag are split into the entries of key :let and
\* all others, the two disjoint and together the input. The :let entry of a
\* slot tag is in the slot's special mapping, that of a component tag in the
\* special mapping of the implicit default slot; :let is never among the
\* ordinary unresolved attributes of the node, nor among resolved attributes,
\* nor in rendered attribute output.
C21_SpecialAttributesSplit ==
    tree.name # "" =>
        /\ tree.unresolved_attributes = OtherEntries(tagAttrs)
        /\ heap[DefaultId(children)].special = LetEntries(tagAttrs)
        /\ heap[DefaultId(children)].unresolved_attributes = <<>>
        /\ KeySet(tree.unresolved_attributes) \cap KeySet(heap[DefaultId(children)].special) = {}
        /\ KeySet(tree.unresolved_attributes) \cup KeySet(heap[DefaultId(children)].special)
              = KeySet(tagAttrs)
        /\ \A i \in 1..Len(children) :
              IsSlotNode(children[i]) =>
                 /\ heap[children[i].id].special = LetEntries(RawSlotAttributes(children[i]))
                 /\ heap[children[i].id].unresolved_attributes
                       = OtherEntries(RawSlotAttributes(children[i]))
        /\ \A id \in DOMAIN heap : ~Has(heap[id].attributes, LET_KEY)
        /\ \A t \in Threads :
              /\ ~Has(attributes[t], LET_KEY)
              /\ \A k \in 1..Len(rs[t].out) : rs[t].out[k] # LET_KEY
              /\ \A k \in 1..Len(output[t]) : output[t][k] # LET_KEY

\* A component tag with a :let attribute and a slot with one were parsed, and
\* the render gave the attribute string of the component.
C21_Witness ==
    /\ Has(tagAttrs, LET_KEY)
    /\ \E i \in 1..Len(children) : IsSlotNode(children[i]) /\ Has(children[i].special, LET_KEY)
    /\ pc[1] = "done" /\ rs[1].tag = "merge_attrs" /\ output[1] # <<>>

\* C22, as the specification states it: a component invocation in the inline
\* form, or with a block that has no child nodes, yields a ComponentNode whose
\* slots mapping is empty.
C22_NoChildrenNoSlots ==
    (tree.name # "" /\ children = <<>>) => tree.slots = <<>>

\* C22, amended: such an invocation yields a ComponentNode whose slots mapping
\* has one entry, the default slot name with an empty list.
C22_NoChildrenEmptyDefaultList ==
    (tree.name # "" /\ children = <<>>) =>
        /\ Keys(tree.slots) = <<DEFAULT_SLOT_NAME>>
        /\ Get(tree.slots, DEFAULT_SLOT_NAME) = <<>>

C22_Witness ==
    /\ tree.name # "" /\ children = <<>> /\ tagAttrs # <<>>
    /\ pc[1] = "done"

\* The ids of the child nodes that are / are not SlotNodes of the default name,
\* in the order of the block.
NonSlotChildren == SelectSeq(children, LAMBDA n : ~IsSlotNode(n))
ExplicitDefaultSlots ==
    [i \in 1..Len(SelectSeq(children, LAMBDA n : IsSlotNode(n) /\ n.name = DEFAULT_SLOT_NAME))
        |-> SelectSeq(children, LAMBDA n : IsSlotNode(n) /\ n.name = DEFAULT_SLOT_NAME)[i].id]

\* C23, as the specification states it: the slots mapping of a parsed
\* ComponentNode has an entry for the default slot name, which holds the
\* implicit default SlotNode, once, exactly when the invocation has a non-slot
\* child, and is the empty list otherwise.
C23_DefaultEntryImplicitOnly ==
    tree.name # "" =>
        /\ Has(tree.slots, DEFAULT_SLOT_NAME)
        /\ NonSlotChildren # <<>> =>
              Len(SelectSeq(Get(tree.slots, DEFAULT_SLOT_NAME),
                            LAMBDA id : id = DefaultId(children))) = 1
        /\ NonSlotChildren = <<>> => Get(tree.slots, DEFAULT_SLOT_NAME) = <<>>

\* C23, amended: the entry for the default slot name always exists; it holds
\* the slots written with that name, in their order, followed by the implicit
\* default SlotNode, once, exactly when the invocation has a non-slot child. The
\* implicit default SlotNode holds the non-slot children in their order. With
\* no non-slot child and no slot of that name the entry is the empty list.
C23_DefaultEntry ==
    tree.name # "" =>
        /\ Has(tree.slots, DEFAULT_SLOT_NAME)
        /\ Get(tree.slots, DEFAULT_SLOT_NAME)
              = ExplicitDefaultSlots
                \o (IF NonSlotChildren # <<>> THEN <<DefaultId(children)>> ELSE <<>>)
        /\ heap[DefaultId(children)].nodelist = NonSlotChildren
        /\ heap[DefaultId(children)].name = DEFAULT_SLOT_NAME

\* A block with a slot of the default name and a non-slot child was parsed;
\* so was a block with no child.
C23_Witness ==
    /\ tree.name # ""
    /\ ExplicitDefaultSlots # <<>> /\ NonSlotChildren # <<>>
    /\ Len(Get(tree.slots, DEFAULT_SLOT_NAME)) = 2

\* C24: SlotNodeList.attributes is the attributes of the only element when
\* the list has exactly one element and that element has an attributes field;
\* for the empty list, a list of several elements and a single element
\* without attributes it is an empty AttributeBag.
C24_SlotNodeListAttributes ==
    call.op = "SlotNodeList.attributes" =>
        LET list == call.args
            bag == call.result.ret
        IN /\ call.result.exc = NoExc
           /\ Len(list) = 0 => bag = <<>>
           /\ Len(list) > 1 => bag = <<>>
           /\ (Len(list) = 1 /\ list[1].kind # "slot") => bag = <<>>
           /\ (Len(list) = 1 /\ list[1].kind = "slot") => bag = list[1].attributes

\* The attributes of a list of one slot with attributes were read, not empty.
C24_Witness ==
    /\ call.op = "SlotNodeList.attributes"
    /\ Len(call.args) = 1
    /\ call.result.ret = << <<"foo", "bar">> >>

\* C25: wrong positional arity fails the compilation of the template, so
\* that no node exists to render: render_slot with no argument or more than
\* two, and slot without a name, raise TemplateSyntaxError; render_slot with
\* one or two arguments that are expressions gives a RenderSlotNode of the slot
\* and the argument, and slot with a name gives a SlotNode.
C25_WrongArityIsSyntaxError ==
    /\ call.op = "do_render_slot" =>
          /\ (Len(call.args) = 0 \/ Len(call.args) > 2) =>
                call.result = [exc |-> TemplateSyntaxError, ret |-> <<>>]
          /\ (Len(call.args) \in {1, 2}
                /\ \A i \in 1..Len(call.args) : FilterExpressionOk(call.args[i])) =>
                /\ call.result.exc = NoExc
                /\ call.result.ret.slot = compile_filter(call.args[1])
                /\ call.result.ret.has_argument = (Len(call.args) = 2)
                /\ Len(call.args) = 2 =>
                      call.result.ret.argument = compile_filter(call.args[2])
    /\ call.op = "do_slot" =>
          /\ Len(call.args) = 0 => call.result = [exc |-> TemplateSyntaxError, ret |-> <<>>]
          /\ Len(call.args) >= 1 => call.result.exc = NoExc /\ call.result.ret.kind = "slot"

\* render_slot with three arguments, all of them expressions, was refused.
C25_Witness ==
    /\ call.op = "do_render_slot"
    /\ Len(call.args) = 3 /\ \A i \in 1..3 : FilterExpressionOk(call.args[i])
    /\ call.result.exc = TemplateSyntaxError

\* v is, as a whole, what the value of a pair may be: an optional quote, text
\* with no quote in it, an optional quote.
WholeValue(v) ==
    \E a, b \in {0, 1} :
        /\ a + b <= Len(v)
        /\ a = 1 => v[1] \in QuoteChunks
        /\ b = 1 => v[Len(v)] \in QuoteChunks
        /\ \A i \in (a + 1)..(Len(v) - b) : v[i] \notin QuoteChunks
\* pair has, as a whole, the shape key=value or key+=value.
WholePair(pair) ==
    \E k \in {2, 3} :
        /\ Len(pair) >= k /\ pair[1] \in NameChunks
        /\ SubSeq(pair, 2, k) \in {<<"=">>, <<"+", "=">>}
        /\ WholeValue(SubSeq(pair, k + 1, Len(pair)))

\* C26: every argument of merge_attrs after the attribute source has, as a
\* whole, the shape key=value or key+=value; when one has not,
\* TemplateSyntaxError is raised at parse time and no MergeAttrsNode is
\* produced.
C26_MalformedPairIsSyntaxError ==
    (call.op = "do_merge_attrs"
        /\ \E i \in 2..Len(call.args) : ~WholePair(call.args[i]))
    => call.result = [exc |-> TemplateSyntaxError, ret |-> <<>>]

\* bit is a name written bare or in quotes of either style.
Spelled(bit, name) ==
    \/ bit = name
    \/ \E q \in QuoteChunks : bit = <<q>> \o name \o <<q>>

\* C27: the name of a slot tag written bare, in double quotes or in single
\* quotes gives a SlotNode of the same name, with no quote character left in
\* it.
C27_SlotNameQuoting ==
    (call.op = "do_slot" /\ Len(call.args) >= 1 /\ Spelled(call.args[1], <<"title">>)) =>
        /\ call.result.exc = NoExc
        /\ call.result.ret.name = <<"title">>
        /\ \A i \in 1..Len(call.result.ret.name) : call.result.ret.name[i] \notin QuoteChunks

\* C30: while the body of a slot is rendered through render_slot, the
\* `attributes` bag it sees equals the attributes of the slot's clone, as the
\* component was handed them (and has not written to them), whatever variables
\* the implementation has bound or shadowed in the context since the
\* invocation.
C30_SlotBodyAttributesAreClonesAttributes ==
    \A t \in Threads :
        (pc[t] = "body" /\ rs[t].phase = "body" /\ ~Has(CurrentSlot(t).attributes, "m")) =>
            Lookup(ctx[t], "attributes") = CurrentSlot(t).attributes

\* The first render of the history under the name of render i.
FirstRender(i) ==
    CHOOSE j \in 1..i :
        /\ rendered[j].name = rendered[i].name
        /\ \A k \in 1..(j - 1) : rendered[k].name # rendered[i].name

\* C28: a render with a name that has no entry compiles its template string
\* and stores the template under the name; a render with name None adds no
\* entry; a render whose name has an entry renders the cached template, even
\* if its own template string differs, and leaves the entry. Over any sequence
\* of renders the entry of a name is the template compiled by the first render
\* under that name.
C28_CacheKeepsFirstTemplate ==
    /\ DOMAIN template_cache = {rendered[i].name : i \in 1..Len(rendered)} \ {NoneV}
    /\ \A i \in 1..Len(rendered) :
          IF rendered[i].name = NoneV
          THEN rendered[i].used = Template(rendered[i].template_string, NoneV)
          ELSE /\ rendered[i].used
                     = Template(rendered[FirstRender(i)].template_string, rendered[i].name)
               /\ template_cache[rendered[i].name] = rendered[i].used

\* A second render under a name used the template of the first, its own
\* template string another one; a render without a name came in between.
C28_Witness ==
    /\ Len(rendered) = 3
    /\ rendered[1].name = "test" /\ rendered[2].name = NoneV /\ rendered[3].name = "test"
    /\ rendered[1].template_string # rendered[3].template_string
    /\ rendered[3].used.source = rendered[1].template_string

\* The steps of the history that are insertions, and the check of the call an
\* insertion belongs to.
Insertions == {i \in 1..Len(log) : log[i].op = "insert"}
CheckOf(i) ==
    CHOOSE j \in 1..i :
        log[j].op = "check" /\ log[j].thread = log[i].thread /\ log[j].n = log[i].n

\* C29: register checks and inserts in separate steps with no lock. Two calls
\* with one name both return without AlreadyRegistered only when the check of
\* the second came before the insertion of the first, and then the later
\* insertion replaces the earlier component; a call whose check comes after an
\* insertion of its name, as every call does when the calls are serialized,
\* raises.
C29_RegisterIsNotAtomic ==
    /\ \A i, j \in Insertions :
          (i < j /\ log[i].name = log[j].name) => CheckOf(j) < i
    /\ \A j \in 1..Len(log) :
          (log[j].op = "check"
              /\ \E i \in Insertions : i < j /\ log[i].name = log[j].name) => ~log[j].ok
    /\ \A name \in DOMAIN registry :
          \E i \in Insertions :
              /\ log[i].name = name /\ registry[name] = log[i].comp
              /\ \A j \in Insertions : log[j].name = name => j <= i

\* Both threads returned from register("hello", ...) without an exception,
\* and the component of the later insertion replaced the other one.
C29_Witness ==
    /\ \A t \in Threads : reg_call[t].pc = "returned" /\ reg_call[t].name = "hello"
    /\ reg_call[1].comp # reg_call[2].comp
    /\ \E i, j \in Insertions :
          i < j /\ log[i].comp # log[j].comp /\ registry["hello"] = log[j].comp

====
